---- MODULE Spec2Model ----
(***************************************************************************)
(* The subject family of RxGo: the embedded subject[T] base (mutex,        *)
(* closed flag, stored error, observer registry), behaviorSubject[T] and   *)
(* replaySubject[T], driven by goroutines that call their methods          *)
(* concurrently.                                                           *)
(*                                                                         *)
(* A method whose whole body runs between mu.Lock() and mu.Unlock() and    *)
(* whose intermediate states no other goroutine can read is one action.    *)
(* behaviorSubject.Next releases the mutex before it ranges over           *)
(* s.observers, so it is split at the unlock, at the evaluation of the     *)
(* range expression and at every callback; behaviorSubject.Error and       *)
(* Complete shrink s.observers one element per iteration while Next may be *)
(* reading it, so their loops are one action per iteration.                *)
(*                                                                         *)
(* NewReplaySubject is the only constructor of replaySubject and leaves    *)
(* bufferSize at zero: Spec starts from the constructors.  SpecK studies   *)
(* trim() and the replay on Subscribe for the capacities a                 *)
(* replaySubject[T]{bufferSize: K} literal written inside the package      *)
(* gives, K = 0 included.                                                  *)
(*                                                                         *)
(* Beside the subjects stand two sequential programs of the observable     *)
(* type: Subscribe with the iterate goroutines it starts (SpecSub), and    *)
(* the producer function of BufferWithCount (SpecBuf).  Each specification *)
(* runs one program and leaves the others in their idle state.             *)
(***************************************************************************)
EXTENDS Integers, Sequences, FiniteSets, TLC

\* ---------------------------------------------------------------- bounds
NProcs == 2
MaxObs == 2
MaxCalls == 4
\* the largest replaySubject.bufferSize of SpecK
MaxBufferSize == 2
\* the longest source observable.Subscribe iterates over
MaxItems == 2
\* the longest source of BufferWithCount, and its largest count and skip
MaxLen == 10
MaxCount == 3
\* the longest source of the timed buffering operators, and how many times
\* their timespan elapses while the source has not terminated
MaxTimed == 3
MaxTicks == 2
\* the most arguments Scheduled is called with
MaxSched == 3
\* the most calls of OnErrorReturn / OnErrorResumeNext on one observable
MaxSets == 2
\* the largest nth given to Skip and SkipLast
MaxSkip == 3
\* the most values a zipped source has
MaxZip == 5
\* the most inner observables the outer of ConcatAll emits
MaxInner == 2
\* the most items of an inner observable
MaxInnerLen == 2

Procs == 1..NProcs
Values == {1, 2}
Errs == {"e1"}
NoErr == "nil"
\* the zero value of T (var v T)
Zero == 0
\* the subject is not locked
Free == 0

VARIABLES
  kind,        \* which concrete type embeds the subject: "behavior" | "replay"
  mu,          \* subject.mu: Free, or the goroutine holding the write lock
  closed,      \* subject.closed
  err,         \* subject.err
  observers,   \* subject.observers, a sequence of observer identities
  v,           \* behaviorSubject.v
  queue,       \* replaySubject.queue (the v of every replayItem)
  bufferSize,  \* replaySubject.bufferSize
  pc,          \* per goroutine: where it stands inside a method
  arg,         \* per goroutine: the value parameter of the Next it is in
  rng,         \* per goroutine: what is left of the slice its range loop took
  trace,       \* every observer callback made so far, in order
  subs,        \* per Subscribe call, in order: what it returned and when it ran
  calls,       \* number of method calls started
  valueRet,    \* what the last Value() returned
  closedRet,   \* what the last Closed() returned
  completeReturned, \* number of Complete() calls that have returned
  faulted,     \* an Error() call that found the subject not closed has returned
  seed,        \* the arguments NewBehaviorSubject was called with
  expect,      \* last: <<x>> once a Next(x) found the subject not closed (the
               \* last such x); refused: some Next found the subject closed
  acc,         \* per goroutine: the registry when its Next stored the value
  term,        \* the last Error()/Complete() call that found the subject not closed
  accepted,    \* the values replaySubject.Next appended to the queue, in order
  \* observable.Subscribe and iterate
  sIn,         \* the observable subscribed to and the options of the call
  sCalled,     \* Subscribe has been called
  epc,         \* the goroutine of the errorOnSubscription branch
  wk,          \* per iterate goroutine: pc, the observable it iterates, its
               \* iterator's position, the error iterate returned
  sharedPos,   \* position of the source's iterator when all iterators share it
  gpc,         \* the goroutine that receives the workers' results
  gi,          \* the index of the result channel it receives from next
  olog,        \* the calls made on the observer, in order
  onErrorReturn,      \* the observable's field: "nil" or the ErrorFunction "f"
  onErrorResumeNext,  \* the observable's field: nil, or the items of the
                      \* observable the ErrorToObservableFunction returns
  sets,        \* calls of OnErrorReturn and OnErrorResumeNext so far
  \* observable.BufferWithCount
  bIn,         \* the source's items and the parameters count and skip
  bpc,         \* where the producer function f stands
  buffer,      \* buffer
  iCount,      \* iCount
  iSkip,       \* iSkip
  bpos,        \* number of items taken from the source's iterator
  out,         \* what was sent on out, in order
  outClosed,   \* number of close(out) executed
  \* observable.BufferWithTime and BufferWithTimeOrCount (they use buffer,
  \* bpos, out and outClosed as BufferWithCount does)
  tIn,         \* the operator, the source's items, timespan, timeshift, count
  fpc,         \* where the producer function f stands
  tpc,         \* the first goroutine (timer / sender)
  cpc,         \* the second goroutine (it reads the source)
  stop,        \* stop
  listen,      \* listen
  lis,         \* the second goroutine's local l (`l := listen`)
  ticks,       \* how many times the timespan has elapsed
  pend,        \* what the second goroutine is blocked sending on sendCh / errCh
  tb,          \* the first goroutine's local b / currentBuffer
  \* the arrays behind the slices of the three buffering operators
  mem,         \* per array ever allocated: its elements now
  bufId,       \* the array `buffer` points into
  outRef,      \* per entry of out: the array and length of the slice sent
  \* NEVER, EMPTY, Scheduled
  scIn,        \* which constructor, and the arguments item, items of Scheduled
  scpc,        \* where the producer function stands
  scItems,     \* items, once `items = append([]T{item}, items...)` has run
  scpos,       \* how many turns `for _, item := range items` has made
  sclog,       \* the calls made on the Subscriber, in order
  \* observable.Skip, observable.SkipLast
  kIn,         \* the operator, the source's items and the parameter nth
  kpc,         \* where f stands
  kpos,        \* number of items taken from the source's iterator
  skipCount,   \* Skip's local skipCount
  kbuf,        \* SkipLast's channel buf: what it holds, oldest first
  kout,        \* what was sent on out, in order
  kclosed,     \* close(out) has run
  \* observable.ZipFromObservable
  zIn,         \* how many sources are zipped (a second ZipFromObservable on the
               \* result of the first for three) and how many values each has
  zs,          \* per ZipFromObservable: where f stands, the positions of it
               \* and it2, item1, and the value it is sending on its out
  zout,        \* what the subscriber received from the last out, in order
  zclosed,     \* the last out has been closed
  \* ConcatAll
  cIn,         \* the inner observables the outer emits, and how the outer ends
  opos,        \* how many inner observables the outer has emitted
  ostate,      \* the outer: running, complete, error, or cancelled
  cq,          \* the inner observables waiting to be subscribed to, in order
  csub,        \* the inner observables subscribed to now
  ipos,        \* per inner observable: how many of its items were forwarded
  cdone,       \* the inner observables that have completed
  clog,        \* the notifications handed to the subscriber, in order
  cterm        \* the result has terminated

\* everything the subjects are made of
subjVars == <<kind, mu, closed, err, observers, v, queue, bufferSize, pc, arg, rng,
              trace, subs, calls, valueRet, closedRet, completeReturned, faulted,
              seed, expect, acc, term, accepted>>

\* the state of the programs modelled beside the subjects
hdlVars == <<onErrorReturn, onErrorResumeNext, sets>>
subVars == <<sIn, sCalled, epc, wk, sharedPos, gpc, gi, olog, hdlVars>>
bufVars == <<bIn, bpc, buffer, iCount, iSkip, bpos, out, outClosed>>
timVars == <<tIn, fpc, tpc, cpc, stop, listen, lis, ticks, pend, tb>>
memVars == <<mem, bufId, outRef>>
schedVars == <<scIn, scpc, scItems, scpos, sclog>>
skVars == <<kIn, kpc, kpos, skipCount, kbuf, kout, kclosed>>
zipVars == <<zIn, zs, zout, zclosed>>
catVars == <<cIn, opos, ostate, cq, csub, ipos, cdone, clog, cterm>>
pipeVars == <<skVars, zipVars, catVars>>
otherVars == <<subVars, bufVars, timVars, memVars, schedVars, pipeVars>>

vars == <<subjVars, otherVars>>

\* the fields of subject[T]
subjectVars == <<closed, err, observers>>
\* the goroutines' positions and locals
procVars == <<pc, arg, rng, acc>>
\* the recorded results of Subscribe, Value and Closed
retVars == <<subs, valueRet, closedRet>>

\* ------------------------------------------------------------- helpers
Range(s) == {s[i] : i \in 1..Len(s)}

\* one callback: observer o, which entry point, its argument, and whether the
\* caller held s.mu while calling
Call(o, t, val, e, held) == [o |-> o, t |-> t, v |-> val, e |-> e, held |-> held]

\* `for _, obs := range os { obs.<t>(...) }`
Notify(os, t, val, e, held) == [i \in 1..Len(os) |-> Call(os[i], t, val, e, held)]

\* `for _, item := range s.queue { obs.Next(item.v) }`
Replay(o, q) == [i \in 1..Len(q) |-> Call(o, "next", q[i], NoErr, TRUE)]

IsTerminal(c) == c.t \in {"error", "complete"}

\* the callbacks observer o has received, in order
ObsLog(o) == SelectSeq(trace, LAMBDA c : c.o = o)

\* NewBehaviorSubject(value ...T)
NewBehaviorSubject(value) == IF Len(value) > 0 THEN value[1] ELSE Zero

\* NewReplaySubject(): &replaySubject[T]{}, every field at its zero value
NewReplaySubject == [bufferSize |-> 0, queue |-> <<>>]

\* the argument lists NewBehaviorSubject is called with
SeedArgs == {<<>>, <<1>>, <<2, 1>>}

NoTerm == [t |-> "none", snap |-> <<>>, open |-> FALSE, ret |-> FALSE]

\* `return nil` of iterate: no error
NilError == 0

\* the parallelism options Subscribe is called with, and the goroutines it starts
Pars == {0, 1, 2}
Workers == 1..2

\* every sequence over S of length at most n
SeqsUpTo(S, n) == UNION {[1..k -> S] : k \in 0..n}

\* what an iterator yields: a value, or an error (the negative numbers)
ItemSet == {1, 2, -1}
IsError(item) == item < 0
\* the errors errorOnSubscription holds
SubscriptionErrs == {-3}
\* the items of the observable an ErrorToObservableFunction returns
ResumeSeqs == {<<>>, <<3>>, <<3, -2>>, <<-2, 3>>}
\* the ErrorFunction given to OnErrorReturn
ErrorFunction(e) == 10 - e

\* an unset element of make([]interface{}, count, count)
Nil == 0

\* the calls made on the observer
OnNext(x) == [t |-> "next", x |-> x]
OnError(e) == [t |-> "error", x |-> e]
OnDone == [t |-> "done", x |-> NilError]

\* the nil ErrorToObservableFunction
NoResume == [nil |-> TRUE, res |-> <<>>]

\* no Subscribe on an observable is under way
SubIdle ==
  /\ sIn = [items |-> <<>>, errOnSub |-> NilError, par |-> 0, shared |-> FALSE]
  /\ onErrorReturn = "nil"
  /\ onErrorResumeNext = NoResume
  /\ sets = 0
  /\ sCalled = TRUE
  /\ epc = "off"
  /\ wk = [w \in Workers |-> [pc |-> "off", obs |-> "src", pos |-> 0, ret |-> NilError]]
  /\ sharedPos = 0
  /\ gpc = "off"
  /\ gi = 0
  /\ olog = <<>>

\* no BufferWithCount producer is under way
BufIdle ==
  /\ bIn = [items |-> <<>>, count |-> 0, skip |-> 0]
  /\ bpc = "off"
  /\ buffer = <<>>
  /\ iCount = 0
  /\ iSkip = 0
  /\ bpos = 0
  /\ out = <<>>
  /\ outClosed = 0

\* a Duration that is nil
NoDuration == -1

\* no timed buffering operator is under way
TimIdle ==
  /\ tIn = [op |-> "none", items |-> <<>>, timespan |-> NoDuration,
            timeshift |-> NoDuration, count |-> 0]
  /\ fpc = "off"
  /\ tpc = "off"
  /\ cpc = "off"
  /\ stop = FALSE
  /\ listen = TRUE
  /\ lis = TRUE
  /\ ticks = 0
  /\ pend = [ch |-> "none", b |-> <<>>, id |-> 0, e |-> NilError]
  /\ tb = [b |-> <<>>, id |-> 0]

\* no producer of NEVER, EMPTY or Scheduled is under way
SchedIdle ==
  /\ scIn = [f |-> "none", item |-> 0, items |-> <<>>]
  /\ scpc = "off"
  /\ scItems = <<>>
  /\ scpos = 0
  /\ sclog = <<>>

\* neither Skip nor SkipLast is under way
SkipIdle ==
  /\ kIn = [op |-> "none", items |-> <<>>, nth |-> 0]
  /\ kpc = "off"
  /\ kpos = 0
  /\ skipCount = 0
  /\ kbuf = <<>>
  /\ kout = <<>>
  /\ kclosed = FALSE

\* f of a ZipFromObservable that is not part of the run (two calls, 1 and 2,
\* zip three sources)
StageOff == [pc |-> "off", it |-> 0, it2 |-> 0, item1 |-> <<>>, sending |-> <<>>]

\* no ZipFromObservable is under way
ZipIdle ==
  /\ zIn = [k |-> 2, n |-> <<0, 0, 0>>]
  /\ zs = [g \in 1..2 |-> StageOff]
  /\ zout = <<>>
  /\ zclosed = FALSE

\* no ConcatAll is under way
CatIdle ==
  /\ cIn = [inners |-> <<>>, outerErr |-> FALSE]
  /\ opos = 0
  /\ ostate = "off"
  /\ cq = <<>>
  /\ csub = {}
  /\ ipos = <<>>
  /\ cdone = {}
  /\ clog = <<>>
  /\ cterm = FALSE

\* none of the operators on cold observables below is under way
PipeIdle == SkipIdle /\ ZipIdle /\ CatIdle

\* no array has been allocated
MemIdle ==
  /\ mem = <<>>
  /\ bufId = 0
  /\ outRef = <<>>

\* a subject of concrete type k as its constructor (for a replaySubject: the
\* struct literal with bufferSize: size) leaves it, no method called yet
Fresh(k, size) ==
  /\ kind = k
  /\ mu = Free
  /\ closed = FALSE
  /\ err = NoErr
  /\ observers = <<>>
  /\ seed \in IF kind = "behavior" THEN SeedArgs ELSE {<<>>}
  /\ v = NewBehaviorSubject(seed)
  /\ queue = NewReplaySubject.queue
  /\ bufferSize = size
  /\ pc = [p \in Procs |-> "idle"]
  /\ arg = [p \in Procs |-> Zero]
  /\ rng = [p \in Procs |-> <<>>]
  /\ trace = <<>>
  /\ subs = <<>>
  /\ calls = 0
  /\ valueRet = Zero
  /\ closedRet = FALSE
  /\ completeReturned = 0
  /\ faulted = FALSE
  /\ expect = [last |-> <<>>, refused |-> FALSE]
  /\ acc = [p \in Procs |-> <<>>]
  /\ term = NoTerm
  /\ accepted = <<>>

\* no subject has been constructed
SubjIdle == Fresh("none", 0)

Init ==
  /\ \E k \in {"behavior", "replay"} : Fresh(k, NewReplaySubject.bufferSize)
  /\ SubIdle
  /\ BufIdle
  /\ TimIdle
  /\ MemIdle
  /\ SchedIdle
  /\ PipeIdle

\* a replaySubject with capacity 0..MaxBufferSize
InitK ==
  /\ \E size \in 0..MaxBufferSize : Fresh("replay", size)
  /\ SubIdle
  /\ BufIdle
  /\ TimIdle
  /\ MemIdle
  /\ SchedIdle
  /\ PipeIdle

\* a goroutine may start a method call
CanCall(p) == pc[p] = "idle" /\ calls < MaxCalls

\* mu.Lock() / mu.RLock() can be acquired
CanLock == mu = Free

\* the record Subscribe leaves in subs
SubRec(r) ==
  [ret |-> r, afterComplete |-> completeReturned > 0, afterError |-> faulted,
   open |-> ~closed /\ err = NoErr, cur |-> v,
   hist |-> queue, n |-> Len(accepted), err |-> err, term |-> term.t]

\* -------------------------------------------------- subject[T] (base)
\* func (s *subject[T]) Closed() bool
Closed(p) ==
  /\ CanCall(p) /\ CanLock
  /\ calls' = calls + 1
  /\ closedRet' = closed
  /\ UNCHANGED <<otherVars, kind, mu, subjectVars, v, queue, accepted, bufferSize, procVars, trace,
                 subs, valueRet, completeReturned, faulted, seed, expect, term>>

\* Unsubscribe that sets closed and forgets to empty the registry
UnsubscribeKeepsObservers(p) ==
  /\ CanCall(p) /\ CanLock
  /\ calls' = calls + 1
  /\ closed' = TRUE
  /\ UNCHANGED <<otherVars, kind, mu, err, observers, v, queue, accepted, bufferSize, procVars, trace,
                 retVars, completeReturned, faulted, seed, expect, term>>

\* func (s *subject[T]) Unsubscribe()
Unsubscribe(p) ==
  /\ CanCall(p) /\ CanLock
  /\ calls' = calls + 1
  /\ closed' = TRUE
  /\ observers' = <<>>
  /\ UNCHANGED <<otherVars, kind, mu, err, v, queue, accepted, bufferSize, procVars, trace, retVars,
                 completeReturned, faulted, seed, expect, term>>

\* ------------------------------------------------ behaviorSubject[T]
\* Next without the `if s.closed` return: it stores and forwards on a closed
\* subject too
BNextLockUnguarded(p, value) ==
  /\ kind = "behavior"
  /\ CanCall(p) /\ CanLock
  /\ calls' = calls + 1
  /\ expect' = IF closed THEN [expect EXCEPT !.refused = TRUE]
                       ELSE [expect EXCEPT !.last = <<value>>]
  /\ v' = value
  /\ pc' = [pc EXCEPT ![p] = "BNextRange"]
  /\ arg' = [arg EXCEPT ![p] = value]
  /\ acc' = [acc EXCEPT ![p] = observers]
  /\ UNCHANGED <<otherVars, kind, mu, subjectVars, queue, accepted, bufferSize, rng, trace, retVars,
                 completeReturned, faulted, seed, term>>

\* func (s *behaviorSubject[T]) Next(value T), from s.mu.Lock() to s.mu.Unlock()
BNextLock(p, value) ==
  /\ kind = "behavior"
  /\ CanCall(p) /\ CanLock
  /\ calls' = calls + 1
  /\ expect' = IF closed THEN [expect EXCEPT !.refused = TRUE]
                       ELSE [expect EXCEPT !.last = <<value>>]
  /\ IF closed
       THEN UNCHANGED <<v, pc, arg, acc>>
       ELSE /\ v' = value
            /\ pc' = [pc EXCEPT ![p] = "BNextRange"]
            /\ arg' = [arg EXCEPT ![p] = value]
            /\ acc' = [acc EXCEPT ![p] = observers]
  /\ UNCHANGED <<otherVars, kind, mu, subjectVars, queue, accepted, bufferSize, rng, trace, retVars,
                 completeReturned, faulted, seed, term>>

\* Next, `range s.observers`: the range expression is evaluated once, after the
\* unlock and without the mutex. The read races with every writer of
\* s.observers (Subscribe, Unsubscribe, the loops of Error and Complete): it
\* yields the slice as it is at any one moment after the unlock, which this
\* step, taken at any point of the interleaving, ranges over. (A torn read of
\* the slice header can only add stale elements of a backing array or a
\* crash; nothing below that is found to hold reads what Next forwards to an
\* observer that was registered.)
BNextRange(p) ==
  /\ pc[p] = "BNextRange"
  /\ rng' = [rng EXCEPT ![p] = observers]
  /\ IF observers = <<>>
       THEN /\ pc' = [pc EXCEPT ![p] = "idle"]
            /\ arg' = [arg EXCEPT ![p] = Zero]
            /\ acc' = [acc EXCEPT ![p] = <<>>]
       ELSE /\ pc' = [pc EXCEPT ![p] = "BNextLoop"]
            /\ UNCHANGED <<arg, acc>>
  /\ UNCHANGED <<otherVars, kind, mu, subjectVars, v, queue, accepted, bufferSize, trace, retVars,
                 calls, completeReturned, faulted, seed, expect, term>>

\* Next, one iteration of the loop: obs.Next(value)
BNextLoop(p) ==
  /\ pc[p] = "BNextLoop"
  /\ trace' = Append(trace, Call(Head(rng[p]), "next", arg[p], NoErr, FALSE))
  /\ rng' = [rng EXCEPT ![p] = Tail(rng[p])]
  /\ IF Tail(rng[p]) = <<>>
       THEN /\ pc' = [pc EXCEPT ![p] = "idle"]
            /\ arg' = [arg EXCEPT ![p] = Zero]
            /\ acc' = [acc EXCEPT ![p] = <<>>]
       ELSE UNCHANGED <<pc, arg, acc>>
  /\ UNCHANGED <<otherVars, kind, mu, subjectVars, v, queue, accepted, bufferSize, retVars, calls,
                 completeReturned, faulted, seed, expect, term>>

\* func (s *behaviorSubject[T]) Error(err error), up to the loop
BErrorLock(p, e) ==
  /\ kind = "behavior"
  /\ CanCall(p) /\ CanLock
  /\ calls' = calls + 1
  /\ IF closed
       THEN UNCHANGED <<mu, err, pc, term>>
       ELSE /\ mu' = p
            /\ err' = e
            /\ pc' = [pc EXCEPT ![p] = "BErrorLoop"]
            /\ term' = [t |-> "error", snap |-> observers,
                        open |-> err = NoErr, ret |-> FALSE]
  /\ UNCHANGED <<otherVars, kind, closed, observers, v, queue, accepted, bufferSize, arg, rng, acc,
                 trace, retVars, completeReturned, faulted, seed, expect>>

\* Error, `for len(s.observers) > 0 { s.observers[0].Error(err); ... }`: one
\* iteration, or the deferred unlock when the loop condition fails
BErrorLoop(p) ==
  /\ pc[p] = "BErrorLoop"
  /\ IF Len(observers) > 0
       THEN /\ trace' = Append(trace, Call(observers[1], "error", Zero, err, TRUE))
            /\ observers' = Tail(observers)
            /\ UNCHANGED <<mu, pc, faulted, term>>
       ELSE /\ mu' = Free
            /\ pc' = [pc EXCEPT ![p] = "idle"]
            /\ faulted' = TRUE
            /\ term' = [term EXCEPT !.ret = TRUE]
            /\ UNCHANGED <<trace, observers>>
  /\ UNCHANGED <<otherVars, kind, closed, err, v, queue, accepted, bufferSize, arg, rng, acc, retVars,
                 calls, completeReturned, seed, expect>>

\* func (s *behaviorSubject[T]) Complete(), up to the loop
BCompleteLock(p) ==
  /\ kind = "behavior"
  /\ CanCall(p) /\ CanLock
  /\ calls' = calls + 1
  /\ IF closed
       THEN /\ completeReturned' = completeReturned + 1
            /\ UNCHANGED <<mu, closed, pc, term>>
       ELSE /\ mu' = p
            /\ closed' = TRUE
            /\ pc' = [pc EXCEPT ![p] = "BCompleteLoop"]
            /\ term' = [t |-> "complete", snap |-> observers,
                        open |-> err = NoErr, ret |-> FALSE]
            /\ UNCHANGED completeReturned
  /\ UNCHANGED <<otherVars, kind, err, observers, v, queue, accepted, bufferSize, arg, rng, acc,
                 trace, retVars, faulted, seed, expect>>

\* Complete whose loop keeps the length test but walks an index instead of
\* reslicing: the head observer is called and stays in the registry
BCompleteLoopNoAdvance(p) ==
  /\ pc[p] = "BCompleteLoop"
  /\ IF Len(observers) > 0
       THEN /\ trace' = Append(trace, Call(observers[1], "complete", Zero, NoErr, TRUE))
            /\ UNCHANGED <<observers, mu, pc, completeReturned, term>>
       ELSE /\ mu' = Free
            /\ pc' = [pc EXCEPT ![p] = "idle"]
            /\ completeReturned' = completeReturned + 1
            /\ term' = [term EXCEPT !.ret = TRUE]
            /\ UNCHANGED <<trace, observers>>
  /\ UNCHANGED <<otherVars, kind, closed, err, v, queue, accepted, bufferSize, arg, rng, acc, retVars,
                 calls, faulted, seed, expect>>

\* Complete, `for len(s.observers) > 0 { s.observers[0].Complete(); ... }`: one
\* iteration, or the deferred unlock when the loop condition fails
BCompleteLoop(p) ==
  /\ pc[p] = "BCompleteLoop"
  /\ IF Len(observers) > 0
       THEN /\ trace' = Append(trace, Call(observers[1], "complete", Zero, NoErr, TRUE))
            /\ observers' = Tail(observers)
            /\ UNCHANGED <<mu, pc, completeReturned, term>>
       ELSE /\ mu' = Free
            /\ pc' = [pc EXCEPT ![p] = "idle"]
            /\ completeReturned' = completeReturned + 1
            /\ term' = [term EXCEPT !.ret = TRUE]
            /\ UNCHANGED <<trace, observers>>
  /\ UNCHANGED <<otherVars, kind, closed, err, v, queue, accepted, bufferSize, arg, rng, acc, retVars,
                 calls, faulted, seed, expect>>

\* func (s *behaviorSubject[T]) Value() T
Value(p) ==
  /\ kind = "behavior"
  /\ CanCall(p) /\ CanLock
  /\ calls' = calls + 1
  /\ valueRet' = v
  /\ UNCHANGED <<otherVars, kind, mu, subjectVars, v, queue, accepted, bufferSize, procVars, trace,
                 subs, closedRet, completeReturned, faulted, seed, expect, term>>

\* Subscribe without the `if s.closed` return
BSubscribeUnguarded(p) ==
  /\ kind = "behavior"
  /\ CanCall(p) /\ CanLock
  /\ Len(subs) < MaxObs
  /\ calls' = calls + 1
  /\ observers' = Append(observers, Len(subs) + 1)
  /\ subs' = Append(subs, SubRec("nil"))
  /\ UNCHANGED <<otherVars, kind, mu, closed, err, v, queue, accepted, bufferSize, procVars, trace,
                 valueRet, closedRet, completeReturned, faulted, seed, expect, term>>

\* func (s *behaviorSubject[T]) Subscribe(onNext, onError, onComplete) Subscription
BSubscribe(p) ==
  /\ kind = "behavior"
  /\ CanCall(p) /\ CanLock
  /\ Len(subs) < MaxObs
  /\ calls' = calls + 1
  /\ IF closed
       THEN /\ subs' = Append(subs, SubRec("empty"))
            /\ UNCHANGED observers
       ELSE /\ observers' = Append(observers, Len(subs) + 1)
            /\ subs' = Append(subs, SubRec("nil"))
  /\ UNCHANGED <<otherVars, kind, mu, closed, err, v, queue, accepted, bufferSize, procVars, trace,
                 valueRet, closedRet, completeReturned, faulted, seed, expect, term>>

\* ------------------------------------------------- replaySubject[T]
\* trim that drops the newest entry
trimNewest(q, size) == IF Len(q) > size THEN SubSeq(q, 1, Len(q) - 1) ELSE q

\* func (s *replaySubject[T]) trim()
trim(q, size) == IF Len(q) > size THEN Tail(q) ELSE q

\* func (s *replaySubject[T]) Next(value T)
RNext(p, value) ==
  /\ kind = "replay"
  /\ CanCall(p) /\ CanLock
  /\ calls' = calls + 1
  /\ IF closed
       THEN UNCHANGED <<queue, accepted, trace>>
       ELSE /\ queue' = trim(Append(queue, value), bufferSize)
            /\ accepted' = Append(accepted, value)
            /\ trace' = trace \o Notify(observers, "next", value, NoErr, TRUE)
  /\ UNCHANGED <<otherVars, kind, mu, subjectVars, v, bufferSize, procVars, retVars,
                 completeReturned, faulted, seed, expect, term>>

\* func (s *replaySubject[T]) Error(err error)
RError(p, e) ==
  /\ kind = "replay"
  /\ CanCall(p) /\ CanLock
  /\ calls' = calls + 1
  /\ IF closed
       THEN UNCHANGED <<err, observers, trace, faulted, term>>
       ELSE /\ err' = e
            /\ trace' = trace \o Notify(observers, "error", Zero, e, TRUE)
            /\ observers' = <<>>
            /\ faulted' = TRUE
            /\ term' = [t |-> "error", snap |-> observers,
                        open |-> err = NoErr, ret |-> TRUE]
  /\ UNCHANGED <<otherVars, kind, mu, closed, v, queue, accepted, bufferSize, procVars, retVars,
                 completeReturned, seed, expect>>

\* Complete that notifies and forgets `s.observers = []Observer[T]{}`
RCompleteKeepsObservers(p) ==
  /\ kind = "replay"
  /\ CanCall(p) /\ CanLock
  /\ calls' = calls + 1
  /\ completeReturned' = completeReturned + 1
  /\ IF closed
       THEN UNCHANGED <<closed, trace, term>>
       ELSE /\ closed' = TRUE
            /\ trace' = trace \o Notify(observers, "complete", Zero, NoErr, TRUE)
            /\ term' = [t |-> "complete", snap |-> observers,
                        open |-> err = NoErr, ret |-> TRUE]
  /\ UNCHANGED <<otherVars, kind, mu, err, observers, v, queue, accepted, bufferSize, procVars,
                 retVars, faulted, seed, expect>>

\* func (s *replaySubject[T]) Complete()
RComplete(p) ==
  /\ kind = "replay"
  /\ CanCall(p) /\ CanLock
  /\ calls' = calls + 1
  /\ completeReturned' = completeReturned + 1
  /\ IF closed
       THEN UNCHANGED <<closed, observers, trace, term>>
       ELSE /\ closed' = TRUE
            /\ trace' = trace \o Notify(observers, "complete", Zero, NoErr, TRUE)
            /\ observers' = <<>>
            /\ term' = [t |-> "complete", snap |-> observers,
                        open |-> err = NoErr, ret |-> TRUE]
  /\ UNCHANGED <<otherVars, kind, mu, err, v, queue, accepted, bufferSize, procVars, retVars,
                 faulted, seed, expect>>

\* Subscribe that registers the observer without the loop over s.queue
RSubscribeNoReplay(p) ==
  /\ kind = "replay"
  /\ CanCall(p) /\ CanLock
  /\ Len(subs) < MaxObs
  /\ calls' = calls + 1
  /\ IF closed
       THEN /\ subs' = Append(subs, SubRec("empty"))
            /\ UNCHANGED <<observers, trace>>
       ELSE LET obs == Len(subs) + 1 IN
            /\ observers' = Append(observers, obs)
            /\ trace' = trace \o
                 (IF err # NoErr THEN <<Call(obs, "error", Zero, err, TRUE)>>
                  ELSE <<>>)
            /\ subs' = Append(subs, SubRec("nil"))
  /\ UNCHANGED <<otherVars, kind, mu, closed, err, v, queue, accepted, bufferSize, procVars,
                 valueRet, closedRet, completeReturned, faulted, seed, expect, term>>

\* func (s *replaySubject[T]) Subscribe(onNext, onError, onComplete) Subscription
RSubscribe(p) ==
  /\ kind = "replay"
  /\ CanCall(p) /\ CanLock
  /\ Len(subs) < MaxObs
  /\ calls' = calls + 1
  /\ IF closed
       THEN /\ subs' = Append(subs, SubRec("empty"))
            /\ UNCHANGED <<observers, trace>>
       ELSE LET obs == Len(subs) + 1 IN
            /\ observers' = Append(observers, obs)
            /\ trace' = trace \o Replay(obs, queue) \o
                 (IF err # NoErr THEN <<Call(obs, "error", Zero, err, TRUE)>>
                  ELSE IF closed THEN <<Call(obs, "complete", Zero, NoErr, TRUE)>>
                  ELSE <<>>)
            /\ subs' = Append(subs, SubRec("nil"))
  /\ UNCHANGED <<otherVars, kind, mu, closed, err, v, queue, accepted, bufferSize, procVars,
                 valueRet, closedRet, completeReturned, faulted, seed, expect, term>>

\* ------------------------------------------------------ specification
Next ==
  \E p \in Procs :
    \/ Closed(p)
    \/ Unsubscribe(p)
    \/ \E value \in Values : BNextLock(p, value)
    \/ BNextRange(p)
    \/ BNextLoop(p)
    \/ \E e \in Errs : BErrorLock(p, e)
    \/ BErrorLoop(p)
    \/ BCompleteLock(p)
    \/ BCompleteLoop(p)
    \/ Value(p)
    \/ BSubscribe(p)
    \/ \E value \in Values : RNext(p, value)
    \/ \E e \in Errs : RError(p, e)
    \/ RComplete(p)
    \/ RSubscribe(p)

Spec == Init /\ [][Next]_vars

\* the methods of a replaySubject, called by the goroutines
NextK ==
  \E p \in Procs :
    \/ Closed(p)
    \/ Unsubscribe(p)
    \/ \E value \in Values : RNext(p, value)
    \/ \E e \in Errs : RError(p, e)
    \/ RComplete(p)
    \/ RSubscribe(p)

SpecK == InitK /\ [][NextK]_vars

\* ------------------------------------- observable.Subscribe and iterate
\* an observable as constructed, not yet subscribed to: its items,
\* errorOnSubscription, the Parallelism option, and whether the Iterators of
\* the source draw from one sequence (a channel) or each from the start (a
\* slice); both recovery handlers are nil
InitSub ==
  /\ SubjIdle
  /\ BufIdle
  /\ TimIdle
  /\ MemIdle
  /\ SchedIdle
  /\ PipeIdle
  /\ sIn \in {r \in [items : SeqsUpTo(ItemSet, MaxItems),
                      errOnSub : {NilError} \cup SubscriptionErrs,
                      par : Pars,
                      shared : BOOLEAN] :
                /\ r.par < 2 => ~r.shared
                /\ r.errOnSub # NilError => ~r.shared}
  /\ onErrorReturn = "nil"
  /\ onErrorResumeNext = NoResume
  /\ sets = 0
  /\ sCalled = FALSE
  /\ epc = "off"
  /\ wk = [w \in Workers |-> [pc |-> "off", obs |-> "src", pos |-> 0, ret |-> NilError]]
  /\ sharedPos = 0
  /\ gpc = "off"
  /\ gi = 0
  /\ olog = <<>>

\* OnErrorResumeNext that leaves onErrorReturn as it is
OnErrorResumeNextOnly ==
  /\ ~sCalled
  /\ sets < MaxSets
  /\ sets' = sets + 1
  /\ \E r \in ResumeSeqs : onErrorResumeNext' = [nil |-> FALSE, res |-> r]
  /\ UNCHANGED <<subjVars, schedVars, pipeVars, bufVars, timVars, memVars, sIn, sCalled, epc, wk,
                 sharedPos, gpc, gi, olog, onErrorReturn>>

\* func (o *observable) OnErrorReturn(resumeFunc): o.onErrorReturn =
\* resumeFunc; o.onErrorResumeNext = nil
OnErrorReturn ==
  /\ ~sCalled
  /\ sets < MaxSets
  /\ sets' = sets + 1
  /\ onErrorReturn' = "f"
  /\ onErrorResumeNext' = NoResume
  /\ UNCHANGED <<subjVars, schedVars, pipeVars, bufVars, timVars, memVars, sIn, sCalled, epc, wk,
                 sharedPos, gpc, gi, olog>>

\* func (o *observable) OnErrorResumeNext(resumeSequence):
\* o.onErrorResumeNext = resumeSequence; o.onErrorReturn = nil
OnErrorResumeNext ==
  /\ ~sCalled
  /\ sets < MaxSets
  /\ sets' = sets + 1
  /\ \E r \in ResumeSeqs : onErrorResumeNext' = [nil |-> FALSE, res |-> r]
  /\ onErrorReturn' = "nil"
  /\ UNCHANGED <<subjVars, schedVars, pipeVars, bufVars, timVars, memVars, sIn, sCalled, epc, wk,
                 sharedPos, gpc, gi, olog>>

\* the branch iterate takes at an error item: getOnErrorReturn() != nil
\* first, else getOnErrorResumeNext() != nil, else neither
Handler ==
  IF onErrorReturn # "nil" THEN "return"
  ELSE IF ~onErrorResumeNext.nil THEN "resume"
  ELSE "none"

\* the observable a goroutine iterates: the source, or the one
\* getOnErrorResumeNext()(item) returned (no handler of its own)
Observable(name) ==
  IF name = "src" THEN [items |-> sIn.items, handler |-> Handler]
  ELSE [items |-> onErrorResumeNext.res, handler |-> "none"]

\* func (o *observable) Subscribe(handler, opts...) Observer: starts the goroutines
Subscribe ==
  /\ ~sCalled
  /\ sCalled' = TRUE
  /\ IF sIn.errOnSub # NilError
       THEN /\ epc' = "go"
            /\ UNCHANGED <<wk, gpc, gi>>
       ELSE IF sIn.par = 0
         THEN /\ wk' = [wk EXCEPT ![1].pc = "iter"]
              /\ UNCHANGED <<epc, gpc, gi>>
         ELSE /\ wk' = [w \in Workers |->
                         IF w <= sIn.par THEN [wk[w] EXCEPT !.pc = "iter"] ELSE wk[w]]
              /\ gpc' = "recv"
              /\ gi' = 1
              /\ UNCHANGED epc
  /\ UNCHANGED <<subjVars, schedVars, pipeVars, bufVars, timVars, memVars, hdlVars, sIn, sharedPos, olog>>

\* go func() { ob.OnError(o.errorOnSubscription) }()
ErrorOnSubscription ==
  /\ epc = "go"
  /\ epc' = "done"
  /\ olog' = Append(olog, OnError(sIn.errOnSub))
  /\ UNCHANGED <<subjVars, schedVars, pipeVars, bufVars, timVars, memVars, hdlVars, sIn, sCalled, wk, sharedPos, gpc, gi>>

\* iterate that goes on with the loop after observer.OnError(item)
iterateGoesOn(w) ==
  LET me == wk[w]
      ob == Observable(me.obs)
      sh == sIn.shared /\ me.obs = "src"
      pos == IF sh THEN sharedPos ELSE me.pos
  IN  /\ me.pc = "iter"
      /\ IF pos >= Len(ob.items)
           THEN /\ wk' = [wk EXCEPT ![w].pc = "ret", ![w].ret = NilError]
                /\ UNCHANGED <<sharedPos, olog>>
           ELSE LET item == ob.items[pos + 1]
                    adv == [me EXCEPT !.pos = IF sh THEN @ ELSE pos + 1]
                IN  /\ sharedPos' = IF sh THEN pos + 1 ELSE sharedPos
                    /\ IF ~IsError(item)
                         THEN /\ olog' = Append(olog, OnNext(item))
                              /\ wk' = [wk EXCEPT ![w] = adv]
                         ELSE IF ob.handler = "return"
                           THEN /\ olog' = Append(olog, OnNext(ErrorFunction(item)))
                                /\ wk' = [wk EXCEPT ![w] =
                                            [adv EXCEPT !.pc = "ret", !.ret = NilError]]
                           ELSE IF ob.handler = "resume"
                             THEN /\ olog' = olog
                                  /\ wk' = [wk EXCEPT ![w] =
                                              [adv EXCEPT !.obs = "res", !.pos = 0]]
                             ELSE /\ olog' = Append(olog, OnError(item))
                                  /\ wk' = [wk EXCEPT ![w] = adv]
      /\ UNCHANGED <<subjVars, schedVars, pipeVars, bufVars, timVars, memVars, hdlVars, sIn, sCalled, epc, gpc, gi>>

\* func iterate(observable Observable, observer Observer) error: one turn of
\* `for it.Next()`, or the return after the loop
iterate(w) ==
  LET me == wk[w]
      ob == Observable(me.obs)
      sh == sIn.shared /\ me.obs = "src"
      pos == IF sh THEN sharedPos ELSE me.pos
  IN  /\ me.pc = "iter"
      /\ IF pos >= Len(ob.items)
           THEN /\ wk' = [wk EXCEPT ![w].pc = "ret", ![w].ret = NilError]
                /\ UNCHANGED <<sharedPos, olog>>
           ELSE LET item == ob.items[pos + 1]
                    adv == [me EXCEPT !.pos = IF sh THEN @ ELSE pos + 1]
                IN  /\ sharedPos' = IF sh THEN pos + 1 ELSE sharedPos
                    /\ IF ~IsError(item)
                         THEN /\ olog' = Append(olog, OnNext(item))
                              /\ wk' = [wk EXCEPT ![w] = adv]
                         ELSE IF ob.handler = "return"
                           THEN /\ olog' = Append(olog, OnNext(ErrorFunction(item)))
                                /\ wk' = [wk EXCEPT ![w] =
                                            [adv EXCEPT !.pc = "ret", !.ret = NilError]]
                           ELSE IF ob.handler = "resume"
                             THEN /\ olog' = olog
                                  /\ wk' = [wk EXCEPT ![w] =
                                              [adv EXCEPT !.obs = "res", !.pos = 0]]
                             ELSE /\ olog' = Append(olog, OnError(item))
                                  /\ wk' = [wk EXCEPT ![w] =
                                              [adv EXCEPT !.pc = "ret", !.ret = item]]
      /\ UNCHANGED <<subjVars, schedVars, pipeVars, bufVars, timVars, memVars, hdlVars, sIn, sCalled, epc, gpc, gi>>

\* Parallelism() == 0: `e := iterate(o, ob); if e == nil { ob.OnDone() }`
Sequential ==
  /\ sIn.par = 0
  /\ wk[1].pc = "ret"
  /\ wk' = [wk EXCEPT ![1].pc = "done"]
  /\ olog' = IF wk[1].ret = NilError THEN Append(olog, OnDone) ELSE olog
  /\ UNCHANGED <<subjVars, schedVars, pipeVars, bufVars, timVars, memVars, hdlVars, sIn, sCalled, epc, sharedPos, gpc, gi>>

\* `ch <- iterate(o, ob)` meets `err := <-ch` of the receiving goroutine
Receive ==
  /\ gpc = "recv"
  /\ wk[gi].pc = "ret"
  /\ wk' = [wk EXCEPT ![gi].pc = "done"]
  /\ IF wk[gi].ret # NilError
       THEN gpc' = "done" /\ gi' = gi
       ELSE IF gi = sIn.par
         THEN gpc' = "ondone" /\ gi' = gi
         ELSE gpc' = gpc /\ gi' = gi + 1
  /\ UNCHANGED <<subjVars, schedVars, pipeVars, bufVars, timVars, memVars, hdlVars, sIn, sCalled, epc, sharedPos, olog>>

\* the receiving goroutine's `ob.OnDone()` after its loop
ParallelDone ==
  /\ gpc = "ondone"
  /\ gpc' = "done"
  /\ olog' = Append(olog, OnDone)
  /\ UNCHANGED <<subjVars, schedVars, pipeVars, bufVars, timVars, memVars, hdlVars, sIn, sCalled, epc, wk, sharedPos, gi>>

NextSub ==
  \/ OnErrorReturn
  \/ OnErrorResumeNext
  \/ Subscribe
  \/ ErrorOnSubscription
  \/ \E w \in Workers : iterate(w)
  \/ Sequential
  \/ Receive
  \/ ParallelDone

SpecSub == InitSub /\ [][NextSub]_vars

\* ---------------------------------------- observable.BufferWithCount
\* the sources: the values 1..n in order, with or without one error among them
BufSources ==
  {[i \in 1..n |-> IF i = e THEN -1 ELSE i] : n \in 0..MaxLen, e \in 0..MaxLen}

\* f has been handed its out channel and has not run yet
InitBuf ==
  /\ SubjIdle
  /\ SubIdle
  /\ TimIdle
  /\ MemIdle
  /\ SchedIdle
  /\ PipeIdle
  /\ bIn \in [items : BufSources, count : 0..MaxCount, skip : 0..MaxCount]
  /\ bpc = "start"
  /\ buffer = <<>>
  /\ iCount = 0
  /\ iSkip = 0
  /\ bpos = 0
  /\ out = <<>>
  /\ outClosed = 0

\* what is sent on out: a buffer, an item of type error, or an IllegalInputError
Emit(b) == [t |-> "buf", b |-> b, e |-> NilError, msg |-> ""]
EmitError(x) == [t |-> "err", b |-> <<>>, e |-> x, msg |-> ""]
IllegalInputError(m) == [t |-> "err", b |-> <<>>, e |-> NilError, msg |-> m]

\* the slices behind what is sent from the array of `buffer`: buffer or
\* buffer[:n] for a buffer, none for an error
NoRef == [id |-> 0, len |-> 0]
RefsFor(sent) ==
  [i \in 1..Len(sent) |->
     IF sent[i].t = "buf" THEN [id |-> bufId, len |-> Len(sent[i].b)] ELSE NoRef]

\* a replacement of the buffer that keeps the array (buffer = buffer[:0])
SameArray == bufId
\* the array a make([]interface{}, ...) returns: one never used before
NewArray == Len(mem) + 1

\* buffer := make([]interface{}, count, count)
MakeBuffer == [i \in 1..bIn.count |-> Nil]

\* the end of the source that sends nothing before close(out)
FlushNothing == <<>>

\* `if iCount != 0 { out <- buffer[:iCount] }`
Flush == IF iCount # 0 THEN <<Emit(SubSeq(buffer, 1, iCount))>> ELSE <<>>

\* the error case that sends the error alone
OnUpstreamErrorAlone(item) == <<EmitError(item)>>

\* case error: the partial buffer, if any, then the item
OnUpstreamError(item) == Flush \o <<EmitError(item)>>

\* the default case that counts only the items it stores
CollectStoredOnly(item) ==
  IF iCount >= bIn.count
    THEN [buffer |-> buffer, iCount |-> iCount, iSkip |-> iSkip]
    ELSE [buffer |-> [buffer EXCEPT ![iCount + 1] = item],
          iCount |-> iCount + 1, iSkip |-> iSkip + 1]

\* default: `if iCount >= count { iSkip++ } else { buffer[iCount] = item; iCount++; iSkip++ }`
Collect(item) ==
  IF iCount >= bIn.count
    THEN [buffer |-> buffer, iCount |-> iCount, iSkip |-> iSkip + 1]
    ELSE [buffer |-> [buffer EXCEPT ![iCount + 1] = item],
          iCount |-> iCount + 1, iSkip |-> iSkip + 1]

\* f up to the loop: the checks of count and skip, then the locals
BufferWithCount ==
  /\ bpc = "start"
  /\ IF bIn.count <= 0
       THEN /\ out' = Append(out, IllegalInputError("count must be positive"))
            /\ outRef' = Append(outRef, NoRef)
            /\ outClosed' = outClosed + 1
            /\ bpc' = "done"
            /\ UNCHANGED <<buffer, iCount, iSkip, mem, bufId>>
       ELSE IF bIn.skip <= 0
         THEN /\ out' = Append(out, IllegalInputError("skip must be positive"))
              /\ outRef' = Append(outRef, NoRef)
              /\ outClosed' = outClosed + 1
              /\ bpc' = "done"
              /\ UNCHANGED <<buffer, iCount, iSkip, mem, bufId>>
         ELSE /\ buffer' = MakeBuffer
              /\ mem' = Append(mem, MakeBuffer)
              /\ bufId' = Len(mem) + 1
              /\ iCount' = 0
              /\ iSkip' = 0
              /\ bpc' = "loop"
              /\ UNCHANGED <<out, outClosed, outRef>>
  /\ UNCHANGED <<subjVars, schedVars, pipeVars, subVars, timVars, bIn, bpos>>

\* one turn of `for it.Next()`
BufferItem ==
  /\ bpc = "loop"
  /\ bpos < Len(bIn.items)
  /\ bpos' = bpos + 1
  /\ LET item == bIn.items[bpos + 1]
         c == Collect(item)
     IN  IF IsError(item)
           THEN /\ out' = out \o OnUpstreamError(item)
                /\ outRef' = outRef \o RefsFor(OnUpstreamError(item))
                /\ outClosed' = outClosed + 1
                /\ bpc' = "done"
                /\ UNCHANGED <<buffer, iCount, iSkip, mem, bufId>>
           ELSE /\ IF c.iSkip = bIn.skip
                     THEN /\ out' = Append(out, Emit(c.buffer))
                          /\ outRef' = outRef \o RefsFor(<<Emit(c.buffer)>>)
                          /\ buffer' = MakeBuffer
                          /\ mem' = Append([mem EXCEPT ![bufId] = c.buffer], MakeBuffer)
                          /\ bufId' = NewArray
                          /\ iCount' = 0
                          /\ iSkip' = 0
                     ELSE /\ buffer' = c.buffer
                          /\ mem' = [mem EXCEPT ![bufId] = c.buffer]
                          /\ iCount' = c.iCount
                          /\ iSkip' = c.iSkip
                          /\ UNCHANGED <<out, outRef, bufId>>
                /\ UNCHANGED <<bpc, outClosed>>
  /\ UNCHANGED <<subjVars, schedVars, pipeVars, subVars, timVars, bIn>>

\* after the loop: the partial buffer, if any, then close(out)
BufferEnd ==
  /\ bpc = "loop"
  /\ bpos >= Len(bIn.items)
  /\ out' = out \o Flush
  /\ outRef' = outRef \o RefsFor(Flush)
  /\ outClosed' = outClosed + 1
  /\ bpc' = "done"
  /\ UNCHANGED <<subjVars, schedVars, pipeVars, subVars, timVars, bIn, buffer, iCount, iSkip, bpos, mem, bufId>>

NextBuf ==
  \/ BufferWithCount
  \/ BufferItem
  \/ BufferEnd

SpecBuf == InitBuf /\ [][NextBuf]_vars

\* ------------------------------------------ observable.BufferWithTime
\* the sources of at most m items: the values 1..n in order, with or without
\* one error among them
Sources(m) == {[i \in 1..n |-> IF i = e THEN -1 ELSE i] : n \in 0..m, e \in 0..m}

\* the Duration arguments: nil, zero, positive
Durations == {NoDuration, 0, 1}
\* func (d) duration() time.Duration
duration(d) == d

\* BufferWithCount is not under way
BufOff ==
  /\ bIn = [items |-> <<>>, count |-> 0, skip |-> 0]
  /\ bpc = "off"
  /\ iCount = 0
  /\ iSkip = 0

\* f of a timed operator has been handed its out channel and has not run yet
InitTimed(op) ==
  /\ SubjIdle
  /\ SubIdle
  /\ MemIdle
  /\ SchedIdle
  /\ PipeIdle
  /\ BufOff
  /\ buffer = <<>>
  /\ bpos = 0
  /\ out = <<>>
  /\ outClosed = 0
  /\ tIn \in [op : {op}, items : Sources(MaxTimed), timespan : Durations,
               timeshift : IF op = "time" THEN Durations ELSE {NoDuration},
               count : IF op = "time" THEN {0} ELSE 0..MaxCount]
  /\ fpc = "start"
  /\ tpc = "off"
  /\ cpc = "off"
  /\ stop = FALSE
  /\ listen = TRUE
  /\ lis = TRUE
  /\ ticks = 0
  /\ pend = [ch |-> "none", b |-> <<>>, id |-> 0, e |-> NilError]
  /\ tb = [b |-> <<>>, id |-> 0]

InitBT == InitTimed("time")

\* the check that lets a zero timespan through
NilTimespan == tIn.timespan = NoDuration

\* `timespan == nil || timespan.duration() == 0`
BadTimespan == tIn.timespan = NoDuration \/ duration(tIn.timespan) = 0

\* timeshift.duration(), after `if timeshift == nil { timeshift = WithDuration(0) }`
Shift == IF tIn.timeshift = NoDuration THEN 0 ELSE duration(tIn.timeshift)

\* `if len(buffer) > 0 { out <- buffer }`
Remaining == IF Len(buffer) > 0 THEN <<Emit(buffer)>> ELSE <<>>

\* f of BufferWithTime: the check of timespan, the locals, the two goroutines
BufferWithTime ==
  /\ tIn.op = "time"
  /\ fpc = "start"
  /\ fpc' = "done"
  /\ IF BadTimespan
       THEN /\ out' = Append(out, IllegalInputError("timespan must not be nil"))
            /\ outRef' = Append(outRef, NoRef)
            /\ outClosed' = outClosed + 1
            /\ UNCHANGED <<buffer, stop, listen, tpc, cpc, mem, bufId>>
       ELSE /\ buffer' = <<>>
            /\ mem' = Append(mem, <<>>)
            /\ bufId' = Len(mem) + 1
            /\ stop' = FALSE
            /\ listen' = TRUE
            /\ tpc' = "sleep"
            /\ cpc' = "next"
            /\ UNCHANGED <<out, outRef, outClosed>>
  /\ UNCHANGED <<subjVars, schedVars, pipeVars, subVars, bIn, bpc, iCount, iSkip, bpos,
                 tIn, lis, ticks, pend, tb>>

\* the timer that never sees stop
NeverStopped == FALSE
\* `if !stop`, read under mux
Stopped == stop

\* the tick that keeps the buffer it has sent
KeptBuffer == buffer
\* buffer = make([]interface{}, 0)
EmptyBuffer == <<>>

\* the timer that goes back to sleep when it finds stop set
TimerLoops == "sleep"
\* `mux.Unlock(); return` of the first goroutine
TimerReturn == "exit"

\* the first goroutine after time.Sleep(timespan.duration()): under mux, send
\* and replace the buffer, or return when stop is set
BTTick ==
  /\ tIn.op = "time"
  /\ tpc = "sleep"
  /\ Stopped \/ ticks < MaxTicks
  /\ IF ~Stopped
       THEN /\ out' = Append(out, Emit(buffer))
            /\ outRef' = outRef \o RefsFor(<<Emit(buffer)>>)
            /\ buffer' = EmptyBuffer
            /\ mem' = Append(mem, EmptyBuffer)
            /\ bufId' = NewArray
            /\ ticks' = ticks + 1
            /\ tpc' = IF Shift # 0 THEN "pause" ELSE "sleep"
       ELSE /\ tpc' = TimerReturn
            /\ UNCHANGED <<out, outRef, buffer, mem, bufId, ticks>>
  /\ UNCHANGED <<subjVars, schedVars, pipeVars, subVars, bIn, bpc, iCount, iSkip, bpos, outClosed,
                 tIn, fpc, cpc, stop, listen, lis, pend, tb>>

\* `listen = false` under listenMutex, before time.Sleep(timeshift.duration())
BTPause ==
  /\ tIn.op = "time"
  /\ tpc = "pause"
  /\ listen' = FALSE
  /\ tpc' = "shift"
  /\ UNCHANGED <<subjVars, schedVars, pipeVars, subVars, bufVars, memVars,
                 tIn, fpc, cpc, stop, lis, ticks, pend, tb>>

\* `listen = true` under listenMutex, after the sleep
BTResume ==
  /\ tIn.op = "time"
  /\ tpc = "shift"
  /\ listen' = TRUE
  /\ tpc' = "sleep"
  /\ UNCHANGED <<subjVars, schedVars, pipeVars, subVars, bufVars, memVars,
                 tIn, fpc, cpc, stop, lis, ticks, pend, tb>>

\* the second goroutine takes an item: an error ends the operator under mux,
\* a value makes it read listen under listenMutex
BTItem ==
  /\ tIn.op = "time"
  /\ cpc = "next"
  /\ bpos < Len(tIn.items)
  /\ bpos' = bpos + 1
  /\ LET item == tIn.items[bpos + 1]
     IN  IF IsError(item)
           THEN /\ out' = out \o Remaining \o <<EmitError(item)>>
                /\ outRef' = outRef \o RefsFor(Remaining \o <<EmitError(item)>>)
                /\ outClosed' = outClosed + 1
                /\ stop' = TRUE
                /\ cpc' = "exit"
                /\ UNCHANGED lis
           ELSE /\ lis' = listen
                /\ cpc' = "append"
                /\ UNCHANGED <<out, outRef, outClosed, stop>>
  /\ UNCHANGED <<subjVars, schedVars, pipeVars, subVars, bIn, bpc, iCount, iSkip, buffer, mem, bufId,
                 tIn, fpc, tpc, listen, ticks, pend, tb>>

\* `if l { buffer = append(buffer, item) }` under mux; an append within the
\* capacity writes the array the buffer already has
BTAppend ==
  /\ tIn.op = "time"
  /\ cpc = "append"
  /\ cpc' = "next"
  /\ LET b == IF lis THEN Append(buffer, tIn.items[bpos]) ELSE buffer
     IN  /\ buffer' = b
         /\ mem' = [mem EXCEPT ![bufId] = b]
  /\ UNCHANGED <<subjVars, schedVars, pipeVars, subVars, bIn, bpc, iCount, iSkip, bpos, out, outClosed,
                 bufId, outRef, tIn, fpc, tpc, stop, listen, lis, ticks, pend, tb>>

\* the source is exhausted: under mux, the rest, close(out), stop = true
BTEnd ==
  /\ tIn.op = "time"
  /\ cpc = "next"
  /\ bpos >= Len(tIn.items)
  /\ out' = out \o Remaining
  /\ outRef' = outRef \o RefsFor(Remaining)
  /\ outClosed' = outClosed + 1
  /\ stop' = TRUE
  /\ cpc' = "exit"
  /\ UNCHANGED <<subjVars, schedVars, pipeVars, subVars, bIn, bpc, iCount, iSkip, buffer, bpos, mem, bufId,
                 tIn, fpc, tpc, listen, lis, ticks, pend, tb>>

NextBT ==
  \/ BufferWithTime
  \/ BTTick
  \/ BTPause
  \/ BTResume
  \/ BTItem
  \/ BTAppend
  \/ BTEnd

SpecBT == InitBT /\ [][NextBT]_vars

\* the first goroutine is scheduled again and again (the downstream receives
\* what is sent on out: the sends are part of the steps)
SpecBTFair ==
  SpecBT /\ WF_vars(BTTick) /\ WF_vars(BTPause) /\ WF_vars(BTResume)

\* ----------------------------------- observable.BufferWithTimeOrCount
InitBTC == InitTimed("timeOrCount")

NoPend == [ch |-> "none", b |-> <<>>, id |-> 0, e |-> NilError]

\* f of BufferWithTimeOrCount: the checks, the channels and the buffer, the
\* two goroutines
BufferWithTimeOrCount ==
  /\ tIn.op = "timeOrCount"
  /\ fpc = "start"
  /\ fpc' = "done"
  /\ IF BadTimespan
       THEN /\ out' = Append(out, IllegalInputError("timespan must not be nil"))
            /\ outRef' = Append(outRef, NoRef)
            /\ outClosed' = outClosed + 1
            /\ UNCHANGED <<buffer, tpc, cpc, mem, bufId>>
       ELSE IF tIn.count <= 0
         THEN /\ out' = Append(out, IllegalInputError("count must be positive"))
              /\ outRef' = Append(outRef, NoRef)
              /\ outClosed' = outClosed + 1
              /\ UNCHANGED <<buffer, tpc, cpc, mem, bufId>>
         ELSE /\ buffer' = <<>>
              /\ mem' = Append(mem, <<>>)
              /\ bufId' = Len(mem) + 1
              /\ tpc' = "select"
              /\ cpc' = "next"
              /\ UNCHANGED <<out, outRef, outClosed>>
  /\ UNCHANGED <<subjVars, schedVars, pipeVars, subVars, bIn, bpc, iCount, iSkip, bpos,
                 tIn, stop, listen, lis, ticks, pend, tb>>

\* the sender that goes on selecting after close(out)
SenderLoops == "select"
\* `close(out); return` of the first goroutine
SenderReturn == "exit"

\* the timer case that leaves the buffer as it is after the copy
CopiedBufferKept == buffer
\* `buffer = make([]interface{}, 0)` after the copy
CopiedBufferReset == <<>>

\* case currentBuffer := <-sendCh, meeting the second goroutine's sendCh <- b
BTCReceive ==
  /\ tIn.op = "timeOrCount"
  /\ tpc = "select"
  /\ pend.ch = "send"
  /\ tb' = [b |-> pend.b, id |-> pend.id]
  /\ pend' = NoPend
  /\ tpc' = "send"
  /\ cpc' = "next"
  /\ UNCHANGED <<subjVars, schedVars, pipeVars, subVars, bufVars, memVars,
                 tIn, fpc, stop, listen, lis, ticks>>

\* case error := <-errCh, meeting errCh <- item / errCh <- nil: the rest of
\* the buffer, the error if not nil, close(out), return
BTCTerminate ==
  /\ tIn.op = "timeOrCount"
  /\ tpc = "select"
  /\ pend.ch = "err"
  /\ LET sent == Remaining \o (IF pend.e # NilError THEN <<EmitError(pend.e)>> ELSE <<>>)
     IN  /\ out' = out \o sent
         /\ outRef' = outRef \o RefsFor(sent)
  /\ outClosed' = outClosed + 1
  /\ pend' = NoPend
  /\ tpc' = SenderReturn
  /\ cpc' = "exit"
  /\ UNCHANGED <<subjVars, schedVars, pipeVars, subVars, bIn, bpc, iCount, iSkip, buffer, bpos, mem, bufId,
                 tIn, fpc, stop, listen, lis, ticks, tb>>

\* case <-time.After(timespan.duration()): under bufferMutex copy the buffer
\* into b and replace it.  The timer is created when the select is entered,
\* so it wins only while neither channel has a sender waiting.
BTCTimer ==
  /\ tIn.op = "timeOrCount"
  /\ tpc = "select"
  /\ pend.ch = "none"
  /\ ticks < MaxTicks
  /\ ticks' = ticks + 1
  /\ tb' = [b |-> buffer, id |-> Len(mem) + 1]
  /\ buffer' = CopiedBufferReset
  /\ mem' = mem \o <<buffer, CopiedBufferReset>>
  /\ bufId' = Len(mem) + 2
  /\ tpc' = "send"
  /\ UNCHANGED <<subjVars, schedVars, pipeVars, subVars, bIn, bpc, iCount, iSkip, bpos, out, outClosed,
                 outRef, tIn, fpc, cpc, stop, listen, lis, pend>>

\* `out <- currentBuffer` / `out <- b`
BTCSend ==
  /\ tIn.op = "timeOrCount"
  /\ tpc = "send"
  /\ out' = Append(out, Emit(tb.b))
  /\ outRef' = Append(outRef, [id |-> tb.id, len |-> Len(tb.b)])
  /\ tpc' = "select"
  /\ UNCHANGED <<subjVars, schedVars, pipeVars, subVars, bIn, bpc, iCount, iSkip, buffer, bpos, outClosed,
                 mem, bufId, tIn, fpc, cpc, stop, listen, lis, ticks, pend, tb>>

\* the second goroutine takes an item: an error goes to errCh; a value is
\* appended under bufferMutex and, when the buffer has count elements, a copy
\* goes to sendCh and the buffer is replaced
BTCItem ==
  /\ tIn.op = "timeOrCount"
  /\ cpc = "next"
  /\ bpos < Len(tIn.items)
  /\ bpos' = bpos + 1
  /\ LET item == tIn.items[bpos + 1]
         b == Append(buffer, item)
     IN  IF IsError(item)
           THEN /\ pend' = [ch |-> "err", b |-> <<>>, id |-> 0, e |-> item]
                /\ cpc' = "blocked"
                /\ UNCHANGED <<buffer, mem, bufId>>
           ELSE IF Len(b) >= tIn.count
             THEN /\ pend' = [ch |-> "send", b |-> b, id |-> Len(mem) + 1, e |-> NilError]
                  /\ cpc' = "blocked"
                  /\ buffer' = <<>>
                  /\ mem' = [mem EXCEPT ![bufId] = b] \o <<b, <<>>>>
                  /\ bufId' = Len(mem) + 2
             ELSE /\ buffer' = b
                  /\ mem' = [mem EXCEPT ![bufId] = b]
                  /\ UNCHANGED <<pend, cpc, bufId>>
  /\ UNCHANGED <<subjVars, schedVars, pipeVars, subVars, bIn, bpc, iCount, iSkip, out, outClosed, outRef,
                 tIn, fpc, tpc, stop, listen, lis, ticks, tb>>

\* the source is exhausted: errCh <- nil
BTCEnd ==
  /\ tIn.op = "timeOrCount"
  /\ cpc = "next"
  /\ bpos >= Len(tIn.items)
  /\ pend' = [ch |-> "err", b |-> <<>>, id |-> 0, e |-> NilError]
  /\ cpc' = "blocked"
  /\ UNCHANGED <<subjVars, schedVars, pipeVars, subVars, bufVars, memVars,
                 tIn, fpc, tpc, stop, listen, lis, ticks, tb>>

\* the steps of the first and of the second goroutine
BTCSender == BTCReceive \/ BTCTerminate \/ BTCTimer \/ BTCSend
BTCConsumer == BTCItem \/ BTCEnd

NextBTC ==
  \/ BufferWithTimeOrCount
  \/ BTCReceive
  \/ BTCTerminate
  \/ BTCTimer
  \/ BTCSend
  \/ BTCItem
  \/ BTCEnd

SpecBTC == InitBTC /\ [][NextBTC]_vars

\* f and both goroutines are scheduled again and again, and the downstream
\* receives what is sent on out
SpecBTCFair ==
  SpecBTC /\ WF_vars(BufferWithTimeOrCount) /\ WF_vars(BTCSender) /\ WF_vars(BTCConsumer)

\* ------------------------------------------- NEVER, EMPTY, Scheduled
\* the producer function of one of the three has been handed its Subscriber
InitSched ==
  /\ SubjIdle
  /\ SubIdle
  /\ BufIdle
  /\ TimIdle
  /\ MemIdle
  /\ PipeIdle
  /\ scIn \in [f : {"NEVER", "EMPTY"}, item : {0}, items : {<<>>}]
           \cup [f : {"Scheduled"}, item : ItemSet,
                 items : SeqsUpTo(ItemSet, MaxSched - 1)]
  /\ scpc = "start"
  /\ scItems = <<>>
  /\ scpos = 0
  /\ sclog = <<>>

\* the calls made on the Subscriber
Complete == [t |-> "complete", x |-> NilError]
\* func nextOrError(sub, v): sub.Error(vi) for an error, else sub.Next(v)
nextOrError(val) == IF IsError(val) THEN OnError(val) ELSE OnNext(val)

\* func NEVER(): the producer does nothing
NEVER ==
  /\ scIn.f = "NEVER"
  /\ scpc = "start"
  /\ scpc' = "done"
  /\ UNCHANGED <<subjVars, subVars, bufVars, timVars, memVars, pipeVars, scIn, scItems, scpos, sclog>>

\* func EMPTY(): obs.Complete()
EMPTY ==
  /\ scIn.f = "EMPTY"
  /\ scpc = "start"
  /\ scpc' = "done"
  /\ sclog' = Append(sclog, Complete)
  /\ UNCHANGED <<subjVars, subVars, bufVars, timVars, memVars, pipeVars, scIn, scItems, scpos>>

\* func Scheduled(item, items...): items = append([]T{item}, items...)
Scheduled ==
  /\ scIn.f = "Scheduled"
  /\ scpc = "start"
  /\ scItems' = <<scIn.item>> \o scIn.items
  /\ scpc' = "range"
  /\ UNCHANGED <<subjVars, subVars, bufVars, timVars, memVars, pipeVars, scIn, scpos, sclog>>

\* one turn of `for _, item := range items { nextOrError(obs, item) }`
ScheduledItem ==
  /\ scpc = "range"
  /\ scpos < Len(scItems)
  /\ scpos' = scpos + 1
  /\ sclog' = Append(sclog, nextOrError(scItems[scpos + 1]))
  /\ UNCHANGED <<subjVars, subVars, bufVars, timVars, memVars, pipeVars, scIn, scpc, scItems>>

\* obs.Complete() after the loop
ScheduledComplete ==
  /\ scpc = "range"
  /\ scpos >= Len(scItems)
  /\ scpc' = "done"
  /\ sclog' = Append(sclog, Complete)
  /\ UNCHANGED <<subjVars, subVars, bufVars, timVars, memVars, pipeVars, scIn, scItems, scpos>>

NextSched ==
  \/ NEVER
  \/ EMPTY
  \/ Scheduled
  \/ ScheduledItem
  \/ ScheduledComplete

SpecSched == InitSched /\ [][NextSched]_vars

\* ------------------------------------- observable.Skip, observable.SkipLast
\* everything but the operators on cold observables below
restVars == <<subjVars, subVars, bufVars, timVars, memVars, schedVars>>

\* f of Skip or SkipLast has been handed its out channel and has not run yet
InitSkips(op) ==
  /\ SubjIdle
  /\ SubIdle
  /\ BufIdle
  /\ TimIdle
  /\ MemIdle
  /\ SchedIdle
  /\ ZipIdle
  /\ CatIdle
  /\ kIn \in [op : {op}, items : Sources(MaxTimed), nth : 0..MaxSkip]
  /\ kpc = "start"
  /\ kpos = 0
  /\ skipCount = 0
  /\ kbuf = <<>>
  /\ kout = <<>>
  /\ kclosed = FALSE

InitSkip == InitSkips("Skip")

\* Skip's f, up to the loop: skipCount := 0; it := o.iterable.Iterator()
Skip ==
  /\ kIn.op = "Skip"
  /\ kpc = "start"
  /\ kpc' = "loop"
  /\ skipCount' = 0
  /\ UNCHANGED <<restVars, zipVars, catVars, kIn, kpos, kbuf, kout, kclosed>>

\* Skip, one turn of `for it.Next()`: count the item and continue while
\* skipCount < int(nth), else out <- item
SkipItem ==
  /\ kIn.op = "Skip"
  /\ kpc = "loop"
  /\ kpos < Len(kIn.items)
  /\ kpos' = kpos + 1
  /\ IF skipCount < kIn.nth
       THEN /\ skipCount' = skipCount + 1
            /\ kout' = kout
       ELSE /\ kout' = Append(kout, kIn.items[kpos + 1])
            /\ skipCount' = skipCount
  /\ UNCHANGED <<restVars, zipVars, catVars, kIn, kpc, kbuf, kclosed>>

\* Skip, after the loop: close(out)
SkipEnd ==
  /\ kIn.op = "Skip"
  /\ kpc = "loop"
  /\ kpos >= Len(kIn.items)
  /\ kpc' = "done"
  /\ kclosed' = TRUE
  /\ UNCHANGED <<restVars, zipVars, catVars, kIn, kpos, skipCount, kbuf, kout>>

NextSkip ==
  \/ Skip
  \/ SkipItem
  \/ SkipEnd

SpecSkip == InitSkip /\ [][NextSkip]_vars

InitSkipLast == InitSkips("SkipLast")

\* SkipLast's f, up to the loop: buf := make(chan interface{}, nth)
SkipLast ==
  /\ kIn.op = "SkipLast"
  /\ kpc = "start"
  /\ kpc' = "loop"
  /\ kbuf' = <<>>
  /\ UNCHANGED <<restVars, zipVars, catVars, kIn, kpos, skipCount, kout, kclosed>>

\* SkipLast, one turn of `for it.Next()` up to the select: `case buf <- item`
\* when buf has room (a channel of capacity 0 never has: nobody receives),
\* else the default case is entered
SkipLastItem ==
  /\ kIn.op = "SkipLast"
  /\ kpc = "loop"
  /\ kpos < Len(kIn.items)
  /\ kpos' = kpos + 1
  /\ IF Len(kbuf) < kIn.nth
       THEN /\ kbuf' = Append(kbuf, kIn.items[kpos + 1])
            /\ kpc' = kpc
       ELSE /\ kbuf' = kbuf
            /\ kpc' = "default"
  /\ UNCHANGED <<restVars, zipVars, catVars, kIn, skipCount, kout, kclosed>>

\* SkipLast, the default case: `out <- (<-buf); buf <- item`. The receive
\* waits for buf to hold something; f is the only goroutine that sends on buf
SkipLastShift ==
  /\ kpc = "default"
  /\ kbuf # <<>>
  /\ kout' = Append(kout, Head(kbuf))
  /\ kbuf' = Append(Tail(kbuf), kIn.items[kpos])
  /\ kpc' = "loop"
  /\ UNCHANGED <<restVars, zipVars, catVars, kIn, kpos, skipCount, kclosed>>

\* SkipLast, after the loop: close(buf); close(out)
SkipLastEnd ==
  /\ kIn.op = "SkipLast"
  /\ kpc = "loop"
  /\ kpos >= Len(kIn.items)
  /\ kpc' = "done"
  /\ kclosed' = TRUE
  /\ UNCHANGED <<restVars, zipVars, catVars, kIn, kpos, skipCount, kbuf, kout>>

NextSkipLast ==
  \/ SkipLast
  \/ SkipLastItem
  \/ SkipLastShift
  \/ SkipLastEnd

SpecSkipLast == InitSkipLast /\ [][NextSkipLast]_vars

\* ------------------------------------------ observable.ZipFromObservable
\* the j-th value of source i
Val(i, j) == 10 * i + j

\* o.ZipFromObservable(p2, zipper) for two sources, and
\* o.ZipFromObservable(p2, zipper).ZipFromObservable(p3, zipper) for three:
\* every f has been handed its out channel and has not run yet
InitZip ==
  /\ SubjIdle
  /\ SubIdle
  /\ BufIdle
  /\ TimIdle
  /\ MemIdle
  /\ SchedIdle
  /\ SkipIdle
  /\ CatIdle
  /\ zIn \in {r \in [k : {2, 3}, n : [1..3 -> 0..MaxZip]] : r.k = 2 => r.n[3] = 0}
  /\ zs = [g \in 1..2 |-> IF g < zIn.k THEN [StageOff EXCEPT !.pc = "start"]
                                         ELSE StageOff]
  /\ zout = <<>>
  /\ zclosed = FALSE

\* the Function2 given as zipper: the pair, and for the second call the pair
\* of the first extended by the third source's value
zipper(g, item1, item2) == IF g = 1 THEN <<item1, item2>> ELSE Append(item1, item2)

\* the unchanged state of a ZipFromObservable step
ZipFrame == UNCHANGED <<restVars, skVars, catVars, zIn>>

\* f, up to the loop: it := o.iterable.Iterator(); it2 := publisher.Iterator()
ZipFromObservable(g) ==
  /\ zs[g].pc = "start"
  /\ zs' = [zs EXCEPT ![g].pc = "outer"]
  /\ UNCHANGED <<zout, zclosed>>
  /\ ZipFrame

\* `for it.Next() { item1 := it.Value()`: the first call reads its source; the
\* second reads the out channel of the first, meeting its `out <-`, and finds
\* the end when that channel is closed
ZipOuter(g) ==
  /\ zs[g].pc = "outer"
  /\ IF g = 1
       THEN IF zs[1].it < zIn.n[1]
              THEN zs' = [zs EXCEPT ![1].it = @ + 1, ![1].pc = "inner",
                                    ![1].item1 = Val(1, zs[1].it + 1)]
              ELSE zs' = [zs EXCEPT ![1].pc = "close"]
       ELSE /\ zs[1].pc \in {"send", "done"}
            /\ IF zs[1].pc = "send"
                 THEN zs' = [zs EXCEPT ![2].it = @ + 1, ![2].pc = "inner",
                                       ![2].item1 = zs[1].sending,
                                       ![1].pc = "outer", ![1].sending = <<>>]
                 ELSE zs' = [zs EXCEPT ![2].pc = "close"]
  /\ UNCHANGED <<zout, zclosed>>
  /\ ZipFrame

\* the inner loop without `continue OuterLoop`: it pairs item1 with every
\* value left in it2
ZipInnerGoesOn(g) ==
  /\ zs[g].pc = "inner"
  /\ IF zs[g].it2 < zIn.n[g + 1]
       THEN LET t == zipper(g, zs[g].item1, Val(g + 1, zs[g].it2 + 1))
            IN  IF g = zIn.k - 1
                  THEN /\ zout' = Append(zout, t)
                       /\ zs' = [zs EXCEPT ![g].it2 = @ + 1]
                  ELSE /\ zout' = zout
                       /\ zs' = [zs EXCEPT ![g].it2 = @ + 1, ![g].pc = "send",
                                             ![g].sending = t]
       ELSE /\ zs' = [zs EXCEPT ![g].pc = "close"]
            /\ zout' = zout
  /\ UNCHANGED zclosed
  /\ ZipFrame

\* `for it2.Next() { item2 := it2.Value(); out <- zipper(item1, item2);
\* continue OuterLoop }; break OuterLoop`: the send of the last call is taken
\* by the subscriber, the send of the first waits for the second call
ZipInner(g) ==
  /\ zs[g].pc = "inner"
  /\ IF zs[g].it2 < zIn.n[g + 1]
       THEN LET t == zipper(g, zs[g].item1, Val(g + 1, zs[g].it2 + 1))
            IN  IF g = zIn.k - 1
                  THEN /\ zout' = Append(zout, t)
                       /\ zs' = [zs EXCEPT ![g].it2 = @ + 1, ![g].pc = "outer"]
                  ELSE /\ zout' = zout
                       /\ zs' = [zs EXCEPT ![g].it2 = @ + 1, ![g].pc = "send",
                                             ![g].sending = t]
       ELSE /\ zs' = [zs EXCEPT ![g].pc = "close"]
            /\ zout' = zout
  /\ UNCHANGED zclosed
  /\ ZipFrame

\* close(out)
ZipClose(g) ==
  /\ zs[g].pc = "close"
  /\ zs' = [zs EXCEPT ![g].pc = "done"]
  /\ zclosed' = IF g = zIn.k - 1 THEN TRUE ELSE zclosed
  /\ zout' = zout
  /\ ZipFrame

NextZip ==
  \/ \E g \in 1..2 : ZipFromObservable(g)
  \/ \E g \in 1..2 : ZipOuter(g)
  \/ \E g \in 1..2 : ZipInner(g)
  \/ \E g \in 1..2 : ZipClose(g)

SpecZip == InitZip /\ [][NextZip]_vars

\* ------------------------------------------------------------ ConcatAll
\* the shapes of an inner observable: its number of items and the position
\* of its error (0: it completes after its items)
InnerShapes == {r \in [len : 0..MaxInnerLen, err : 0..MaxInnerLen] : r.err <= r.len}
\* the items of the i-th inner observable, ending at its error
InnerItems(i) ==
  LET r == cIn.inners[i]
      n == IF r.err = 0 THEN r.len ELSE r.err
  IN  [j \in 1..n |-> IF j = r.err THEN 0 - i ELSE Val(i, j)]
\* the error of the outer observable
OuterError == -9

\* the result of ConcatAll has been subscribed to: the outer runs, no inner
\* observable has been emitted yet
InitConcat ==
  /\ SubjIdle
  /\ SubIdle
  /\ BufIdle
  /\ TimIdle
  /\ MemIdle
  /\ SchedIdle
  /\ SkipIdle
  /\ ZipIdle
  /\ cIn \in [inners : SeqsUpTo(InnerShapes, MaxInner), outerErr : BOOLEAN]
  /\ opos = 0
  /\ ostate = "running"
  /\ cq = <<>>
  /\ csub = {}
  /\ ipos = [i \in 1..Len(cIn.inners) |-> 0]
  /\ cdone = {}
  /\ clog = <<>>
  /\ cterm = FALSE

\* the unchanged state of a ConcatAll step
ConcatFrame == UNCHANGED <<restVars, skVars, zipVars, cIn>>

\* an outer that subscribes to every inner observable as it is emitted
ConcatOuterNextEager ==
  /\ ostate = "running"
  /\ opos < Len(cIn.inners)
  /\ opos' = opos + 1
  /\ csub' = csub \cup {opos + 1}
  /\ cq' = cq
  /\ UNCHANGED <<ostate, ipos, cdone, clog, cterm>>
  /\ ConcatFrame

\* the outer emits its next inner observable: it is subscribed to when no
\* inner subscription is active, and queued otherwise
ConcatOuterNext ==
  /\ ostate = "running"
  /\ opos < Len(cIn.inners)
  /\ opos' = opos + 1
  /\ IF csub = {} /\ cq = <<>>
       THEN csub' = {opos + 1} /\ cq' = cq
       ELSE csub' = csub /\ cq' = Append(cq, opos + 1)
  /\ UNCHANGED <<ostate, ipos, cdone, clog, cterm>>
  /\ ConcatFrame

\* the outer completes: the result completes if no inner observable is
\* active or queued
ConcatOuterComplete ==
  /\ ostate = "running"
  /\ opos = Len(cIn.inners)
  /\ ~cIn.outerErr
  /\ ostate' = "complete"
  /\ IF csub = {} /\ cq = <<>>
       THEN clog' = Append(clog, Complete) /\ cterm' = TRUE
       ELSE clog' = clog /\ cterm' = cterm
  /\ UNCHANGED <<opos, cq, csub, ipos, cdone>>
  /\ ConcatFrame

\* the outer fails: the error is forwarded at once and the active inner
\* subscription is cancelled
ConcatOuterError ==
  /\ ostate = "running"
  /\ opos = Len(cIn.inners)
  /\ cIn.outerErr
  /\ ostate' = "error"
  /\ clog' = Append(clog, OnError(OuterError))
  /\ cterm' = TRUE
  /\ csub' = {}
  /\ cq' = <<>>
  /\ UNCHANGED <<opos, ipos, cdone>>
  /\ ConcatFrame

\* the active inner observable i produces its next item: a value is
\* forwarded; an error is forwarded and ends the chain, cancelling the outer
ConcatInnerNext(i) ==
  /\ i \in csub
  /\ ipos[i] < Len(InnerItems(i))
  /\ ipos' = [ipos EXCEPT ![i] = @ + 1]
  /\ LET x == InnerItems(i)[ipos[i] + 1]
     IN  IF IsError(x)
           THEN /\ clog' = Append(clog, OnError(x))
                /\ cterm' = TRUE
                /\ csub' = {}
                /\ cq' = <<>>
                /\ ostate' = IF ostate = "running" THEN "cancelled" ELSE ostate
           ELSE /\ clog' = Append(clog, OnNext(x))
                /\ UNCHANGED <<cterm, csub, cq, ostate>>
  /\ UNCHANGED <<opos, cdone>>
  /\ ConcatFrame

\* the active inner observable i completes: the next queued one is
\* subscribed to, or the result completes if the outer has completed too
ConcatInnerComplete(i) ==
  /\ i \in csub
  /\ ipos[i] = Len(InnerItems(i))
  /\ cdone' = cdone \cup {i}
  /\ IF cq # <<>>
       THEN /\ csub' = {Head(cq)}
            /\ cq' = Tail(cq)
            /\ UNCHANGED <<clog, cterm>>
       ELSE /\ csub' = {}
            /\ cq' = cq
            /\ IF ostate = "complete"
                 THEN clog' = Append(clog, Complete) /\ cterm' = TRUE
                 ELSE clog' = clog /\ cterm' = cterm
  /\ UNCHANGED <<opos, ostate, ipos>>
  /\ ConcatFrame

NextConcat ==
  \/ ConcatOuterNext
  \/ ConcatOuterComplete
  \/ ConcatOuterError
  \/ \E i \in 1..MaxInner : ConcatInnerNext(i)
  \/ \E i \in 1..MaxInner : ConcatInnerComplete(i)

SpecConcat == InitConcat /\ [][NextConcat]_vars

\* --------------------------------------- the three buffering operators
InitBuffers == InitBuf \/ InitBT \/ InitBTC

NextBuffers == NextBuf \/ NextBT \/ NextBTC

\* one of BufferWithCount, BufferWithTime, BufferWithTimeOrCount runs
SpecBuffers == InitBuffers /\ [][NextBuffers]_vars

\* ------------------------------------------------------------- claims
Observers == 1..Len(subs)

\* the indices of the callbacks of kind t that observer o has received
CallsTo(o, t) == {k \in 1..Len(trace) : trace[k].o = o /\ trace[k].t = t}

\* C1: an observer receives no Next after its Error or Complete, and at most
\* one terminal callback: in every observer's log a terminal callback can only
\* be the last entry.
C1_NothingAfterTerminal ==
  \A o \in Observers :
    LET l == ObsLog(o) IN \A i \in 1..(Len(l) - 1) : ~IsTerminal(l[i])

\* C2: a Subscribe that runs after a Complete() has returned gets the empty
\* subscription, its observer is not in the registry, and that observer's
\* onNext is never invoked.
C2_SubscribeAfterComplete ==
  \A o \in Observers :
    subs[o].afterComplete =>
      /\ subs[o].ret = "empty"
      /\ o \notin Range(observers)
      /\ CallsTo(o, "next") = {}

\* C2 happens: a Subscribe ran after Complete() returned, and a further call
\* followed it.
C2_Witness ==
  \E o \in Observers :
    /\ subs[o].afterComplete
    /\ calls >= 3
    /\ o < Len(subs)

\* C3: a Subscribe that runs after an Error(e) has returned gets an
\* already-terminal subscription, its observer is not in the registry, and
\* that observer's onNext is never invoked.
C3_SubscribeAfterError ==
  \A o \in Observers :
    subs[o].afterError =>
      /\ subs[o].ret = "empty"
      /\ o \notin Range(observers)
      /\ CallsTo(o, "next") = {}

\* a step of a Next, Error or Complete call that takes the lock
TakesLock(p) ==
  \/ \E value \in Values : BNextLock(p, value) \/ RNext(p, value)
  \/ \E e \in Errs : BErrorLock(p, e) \/ RError(p, e)
  \/ BErrorLoop(p)
  \/ BCompleteLock(p)
  \/ BCompleteLoop(p)
  \/ RComplete(p)

\* C4: once Error(e) has faulted the subject, every step of a later Next,
\* Error or Complete call invokes no callback, starts no forwarding and
\* leaves the current value and the history as they are.
C4_NoOpAfterError ==
  [][(faulted /\ \E p \in Procs : TakesLock(p)) =>
       /\ trace' = trace
       /\ v' = v
       /\ queue' = queue
       /\ \A p \in Procs : pc'[p] = "BNextRange" => pc[p] = "BNextRange"]_vars

\* the terminal callbacks made to the observers of the last terminal call are
\* one per observer, of that call's kind, in registration order
TermDelivered ==
  LET l == SelectSeq(trace, LAMBDA c : IsTerminal(c) /\ c.o \in Range(term.snap))
  IN /\ Len(l) = Len(term.snap)
     /\ \A i \in 1..Len(l) : l[i].o = term.snap[i] /\ l[i].t = term.t

\* C5: when an Error(e) or Complete() call that found the subject open
\* returns, each observer registered at the call has received that terminal
\* callback exactly once, in registration order, and the registry is empty.
C5_TerminalInOrder ==
  [][(term' # term /\ term'.ret /\ term'.open) =>
       (observers' = <<>> /\ TermDelivered')]_vars

\* C5 happens: a terminal call on an open subject with two observers returned.
C5_Witness == term.ret /\ term.open /\ Len(term.snap) = 2

\* C6: a Complete() on a subject that is already closed changes nothing (no
\* callback, same closed, err, observers, value and history); the Complete()
\* that closes the subject gives every registered observer one Complete; no
\* observer ever receives Complete twice.
C6_CompleteIdempotent ==
  [][/\ (closed /\ \E p \in Procs : BCompleteLock(p) \/ RComplete(p)) =>
          UNCHANGED <<closed, err, observers, v, queue, trace, mu, pc>>
     /\ (term' # term /\ term'.ret /\ term'.t = "complete") =>
          \A o \in Range(term'.snap) : Cardinality(CallsTo(o, "complete")') = 1
     /\ \A o \in 1..Len(subs') : Cardinality(CallsTo(o, "complete")') <= 1]_vars

\* C6 happens: Complete() closed a subject with an observer and a second
\* Complete() has returned as well.
C6_Witness ==
  /\ term.t = "complete" /\ term.ret /\ Len(term.snap) >= 1
  /\ closed /\ completeReturned >= 2

\* C7: whenever the mutex is free, closed implies an empty registry; closed
\* never goes back to false, and once closed the registry never grows.
C7_ClosedKeepsRegistryEmpty ==
  [][/\ (mu' = Free /\ closed') => observers' = <<>>
     /\ closed => (closed' /\ Len(observers') <= Len(observers))]_vars

\* C7 happens: the subject was closed with an observer registered, and a
\* Subscribe was tried after that.
C7_Witness ==
  /\ closed /\ mu = Free
  /\ \E o \in Observers : subs[o].ret = "nil"
  /\ \E o \in Observers : subs[o].ret = "empty"

\* what Value() has to return: the argument of the last Next that found the
\* subject not closed, else the seed, else the zero value
Expected ==
  IF expect.last # <<>> THEN expect.last[1]
  ELSE IF seed # <<>> THEN seed[1] ELSE Zero

\* C8: Value() returns the seed (the zero value without a seed) before any
\* Next and the argument of the last accepted Next after it; a Next on a
\* closed subject does not change it.
C8_ValueIsLatest ==
  [][/\ kind = "behavior" => v' = Expected'
     /\ (\E p \in Procs : Value(p)) => valueRet' = Expected
     /\ closed => v' = v]_vars

\* C8 happens: on a seeded subject a Next with another value was accepted, the
\* subject was closed, a later Next was refused, and Value() returned the
\* accepted argument.
C8_Witness ==
  /\ kind = "behavior" /\ seed # <<>>
  /\ expect.last # <<>> /\ expect.last[1] # seed[1]
  /\ closed /\ expect.refused /\ valueRet = expect.last[1]

\* C9: an observer subscribed to an open BehaviorSubject has received the
\* value that was current at its Subscribe as its first callback by the time
\* Subscribe returns.
C9_SubscribeDeliversCurrent ==
  \A o \in Observers :
    (kind = "behavior" /\ subs[o].ret = "nil" /\ subs[o].open) =>
      LET l == ObsLog(o)
      IN l # <<>> /\ l[1].t = "next" /\ l[1].v = subs[o].cur

\* C10: every callback a Next(v) makes goes to an observer that was registered
\* when v was stored under the lock and that has not been removed by an Error
\* or Complete since.
C10_ForwardToLockedSnapshot ==
  [][\A p \in Procs :
       /\ BNextLoop(p) =>
            /\ Head(rng[p]) \in Range(acc[p])
            /\ CallsTo(Head(rng[p]), "error") = {}
            /\ CallsTo(Head(rng[p]), "complete") = {}
       /\ (\E value \in Values : RNext(p, value)) =>
            {trace'[k].o : k \in (Len(trace) + 1)..Len(trace')} \subseteq Range(observers)
     ]_vars

\* C11: no subject method calls an observer callback while it holds the
\* subject's mutex (so a callback that calls back into the subject cannot
\* block on the mutex its caller holds).
C11_NoCallbackUnderLock ==
  \A k \in 1..Len(trace) : ~trace[k].held

\* the last k entries of s (all of s when it has fewer)
Suffix(s, k) == SubSeq(s, Len(s) - (IF k < Len(s) THEN k ELSE Len(s)) + 1, Len(s))

\* the values observer o has received through onNext, in order
NextVals(o) ==
  LET L == SelectSeq(ObsLog(o), LAMBDA c : c.t = "next")
  IN  [i \in 1..Len(L) |-> L[i].v]

\* C12: a replaySubject of capacity K retains at most K entries, and they are
\* the last K accepted values in the order they were accepted (the oldest is
\* what an eviction removes).
C12_HistoryIsBoundedSuffix ==
  kind = "replay" =>
    /\ Len(queue) <= bufferSize
    /\ queue = Suffix(accepted, bufferSize)

\* C12 happens: capacity 2, three values accepted, the first one evicted and
\* the two retained ones distinguishable by their order.
C12_Witness ==
  /\ kind = "replay" /\ bufferSize = 2
  /\ Len(accepted) = 3
  /\ accepted[2] # accepted[3]
  /\ Len(queue) = 2

\* C13: an observer that subscribed to an open replaySubject of capacity K
\* after N > K values were accepted has received, while the subject has not
\* failed, exactly the last K of those N values in order followed by every
\* value accepted since, each once and in order.
C13_ReplayThenLive ==
  \A o \in Observers :
    (kind = "replay" /\ subs[o].open /\ subs[o].n > bufferSize /\ err = NoErr) =>
      NextVals(o) = Suffix(SubSeq(accepted, 1, subs[o].n), bufferSize)
                      \o SubSeq(accepted, subs[o].n + 1, Len(accepted))

\* C13 happens: capacity 1, two values accepted, then a Subscribe on the open
\* subject, then a third value accepted: the observer has the second and the
\* third.
C13_Witness ==
  \E o \in Observers :
    /\ kind = "replay" /\ bufferSize = 1 /\ err = NoErr
    /\ subs[o].open /\ subs[o].n = 2
    /\ Len(accepted) = 3
    /\ accepted[1] # accepted[2]
    /\ Len(NextVals(o)) = 2

\* C14: an observer that subscribes to a replaySubject after it terminated
\* (an Error stored its error, or a Complete closed it) has received the
\* history retained at that moment in order, then the terminal notification
\* that occurred, and nothing else.
C14_LateSubscriberGetsHistoryAndTerminal ==
  \A o \in Observers :
    (kind = "replay" /\ (subs[o].err # NoErr \/ subs[o].term = "complete")) =>
      LET L == ObsLog(o)
          n == Len(subs[o].hist)
      IN  /\ Len(L) = n + 1
          /\ \A i \in 1..n : L[i].t = "next" /\ L[i].v = subs[o].hist[i]
          /\ L[n + 1].t = (IF subs[o].err # NoErr THEN "error" ELSE "complete")
          /\ L[n + 1].e = subs[o].err

\* the index of the first error in items, 0 when there is none
FirstError(items) ==
  IF \E i \in 1..Len(items) : IsError(items[i])
    THEN CHOOSE i \in 1..Len(items) :
           IsError(items[i]) /\ \A j \in 1..(i - 1) : ~IsError(items[j])
    ELSE 0

OnNexts(items) == [i \in 1..Len(items) |-> OnNext(items[i])]

\* what an observable without a recovery handler owes its observer
Plain(items) ==
  LET k == FirstError(items)
  IN  IF k = 0 THEN OnNexts(items) \o <<OnDone>>
      ELSE OnNexts(SubSeq(items, 1, k - 1)) \o <<OnError(items[k])>>

\* what the subscribed observable owes its observer
Owed ==
  LET k == FirstError(sIn.items)
      head == OnNexts(SubSeq(sIn.items, 1, k - 1))
  IN  IF sIn.errOnSub # NilError THEN <<OnError(sIn.errOnSub)>>
      ELSE IF k = 0 \/ Handler = "none" THEN Plain(sIn.items)
      ELSE IF Handler = "return"
        THEN head \o <<OnNext(ErrorFunction(sIn.items[k])), OnDone>>
      ELSE head \o Plain(onErrorResumeNext.res)

\* every goroutine Subscribe started with Parallelism 0 has finished
SequentialFinished == sCalled /\ sIn.par = 0 /\ (epc = "done" \/ wk[1].pc = "done")

\* C15: with Parallelism 0 the calls on the observer are, at every moment, a
\* prefix of: OnNext per non-error item in order, then one terminal call
\* (OnError at the first error item when no handler recovers it, else
\* OnDone at the end; OnError alone when errorOnSubscription is set); when
\* the goroutine has finished they are all of it.
C15_SequentialProtocol ==
  sIn.par = 0 =>
    /\ Len(olog) <= Len(Owed)
    /\ olog = SubSeq(Owed, 1, Len(olog))
    /\ SequentialFinished => olog = Owed

\* C15 happens: with Parallelism 0 and no handler a source whose first item is
\* an error and whose second is a value has been iterated to the end.
C15_Witness ==
  /\ SequentialFinished
  /\ Handler = "none" /\ sIn.errOnSub = NilError
  /\ Len(sIn.items) = 2
  /\ IsError(sIn.items[1]) /\ ~IsError(sIn.items[2])
  /\ olog = <<OnError(sIn.items[1])>>

\* C16: with Parallelism N > 0 the observer gets at most one terminal call
\* (OnError or OnDone) and no call after it.
C16_ParallelOneTerminal ==
  sIn.par > 0 =>
    \A i \in 1..Len(olog) : olog[i].t # "next" => i = Len(olog)

Min(a, b) == IF a < b THEN a ELSE b

\* f has returned for legal parameters
BufDone == bpc = "done" /\ bIn.count > 0 /\ bIn.skip > 0

\* the source holds no error
ErrorFree == FirstError(bIn.items) = 0

\* the buffers owed when a window of count items opens every skip items and
\* what lies between two windows is dropped
Windows ==
  LET n == Len(bIn.items)
      k == (n + bIn.skip - 1) \div bIn.skip
  IN  [j \in 1..k |->
         Emit(SubSeq(bIn.items, (j - 1) * bIn.skip + 1,
                     Min((j - 1) * bIn.skip + bIn.count, n)))]

\* C17: with skip = count over an error-free source a1..an the output is the
\* consecutive disjoint chunks of count items, the last one shorter exactly
\* when count does not divide n, and then out is closed.
C17_DisjointChunks ==
  (BufDone /\ ErrorFree /\ bIn.skip = bIn.count) =>
    /\ out = Windows
    /\ \A j \in 1..Len(out) :
         Len(out[j].b) < bIn.count <=>
           (j = Len(out) /\ Len(bIn.items) % bIn.count # 0)
    /\ outClosed = 1

\* C17 happens: (3,3) over 1..10 has ended with [1,2,3],[4,5,6],[7,8,9],[10].
C17_Witness ==
  /\ BufDone /\ bIn.count = 3 /\ bIn.skip = 3
  /\ bIn.items = <<1, 2, 3, 4, 5, 6, 7, 8, 9, 10>>
  /\ Len(out) = 4
  /\ out[1].b = <<1, 2, 3>>
  /\ out[4].b = <<10>>

\* C18: with skip < count over an error-free source every emitted buffer
\* holds at most count consecutive upstream values, buffer j starting at
\* upstream position (j-1)*skip + 1, and nothing that upstream did not
\* produce.
C18_OverlappingWindows ==
  (BufDone /\ ErrorFree /\ bIn.skip < bIn.count) =>
    \A j \in 1..Len(out) :
      /\ out[j].t = "buf"
      /\ Len(out[j].b) <= bIn.count
      /\ \A i \in 1..Len(out[j].b) :
           /\ (j - 1) * bIn.skip + i <= Len(bIn.items)
           /\ out[j].b[i] = bIn.items[(j - 1) * bIn.skip + i]

\* C19: with skip > count over an error-free source the output is, per block
\* of skip upstream items, one buffer with the block's first count items; the
\* other skip - count items of the block are in no buffer.
C19_SkipDropsBetweenWindows ==
  (BufDone /\ ErrorFree /\ bIn.skip > bIn.count) =>
    /\ out = Windows
    /\ \A p \in 1..Len(bIn.items) :
         ((p - 1) % bIn.skip) >= bIn.count =>
           \A j \in 1..Len(out) : bIn.items[p] \notin Range(out[j].b)

\* C19 happens: (2,3) over 1..10 has ended with [1,2],[4,5],[7,8],[10].
C19_Witness ==
  /\ BufDone /\ bIn.count = 2 /\ bIn.skip = 3
  /\ bIn.items = <<1, 2, 3, 4, 5, 6, 7, 8, 9, 10>>
  /\ Len(out) = 4
  /\ out[2].b = <<4, 5>>
  /\ out[4].b = <<10>>

\* C20: when the source ends or yields an error, the output is the buffers
\* sent every skip items, then the partial buffer exactly when items were
\* collected since the last one (those items, in order), then the error if
\* the source yielded one, as the last entry and with nothing taken from the
\* source after it; out is closed once.
C20_FlushThenTerminal ==
  BufDone =>
    LET e == FirstError(bIn.items)
        m == IF e = 0 THEN Len(bIn.items) ELSE e - 1
        full == m \div bIn.skip
        r == m % bIn.skip
        part == IF r > 0 THEN 1 ELSE 0
    IN  /\ Len(out) = full + part + (IF e = 0 THEN 0 ELSE 1)
        /\ \A j \in 1..full : out[j].t = "buf"
        /\ r > 0 => out[full + 1] =
                      Emit(SubSeq(bIn.items, full * bIn.skip + 1,
                                  full * bIn.skip + Min(r, bIn.count)))
        /\ e # 0 => out[Len(out)] = EmitError(bIn.items[e])
        /\ bpos = (IF e = 0 THEN Len(bIn.items) ELSE e)
        /\ outClosed = 1

\* C20 happens: the source yielded an error with a partial buffer pending and
\* items left behind the error; the buffer and then the error were sent.
C20_Witness ==
  /\ BufDone
  /\ FirstError(bIn.items) \in 2..(Len(bIn.items) - 1)
  /\ Len(out) >= 2
  /\ out[Len(out)].t = "err"
  /\ out[Len(out) - 1].t = "buf"
  /\ Len(out[Len(out) - 1].b) < bIn.count

\* the elements of the buffers in o, in the order sent
RECURSIVE Concat(_)
Concat(o) == IF o = <<>> THEN <<>> ELSE Concat(SubSeq(o, 1, Len(o) - 1)) \o o[Len(o)].b

\* C22: in BufferWithTime with timeshift > 0 no step appends a value to the
\* buffer while listen is false.
C22_NoAppendWhilePaused ==
  [][(tIn.op = "time" /\ Shift # 0 /\ Len(buffer') > Len(buffer)) => listen]_vars

\* the source values handed to the buffer so far
Taken == SubSeq(tIn.items, 1, IF cpc = "append" THEN bpos - 1 ELSE bpos)

\* C23: in BufferWithTime with timeshift = 0 over an error-free source, what
\* has been sent followed by the current buffer is at every moment the source
\* values taken so far, in order; when the source is exhausted what has been
\* sent is the whole source (each value once, in order).
C23_ContinuousCollection ==
  (tIn.op = "time" /\ Shift = 0 /\ ~BadTimespan /\ fpc = "done"
     /\ FirstError(tIn.items) = 0) =>
    IF cpc = "exit" THEN Concat(out) = tIn.items
    ELSE Concat(out) \o buffer = Taken

\* C23 happens: timeshift = 0, a source of three values exhausted, and the
\* timer has sent two non-empty buffers in between.
C23_Witness ==
  /\ tIn.op = "time" /\ Shift = 0 /\ cpc = "exit"
  /\ tIn.items = <<1, 2, 3>>
  /\ Len(out) >= 2
  /\ out[1].b # <<>> /\ out[2].b # <<>>
  /\ ticks = 2

\* C24: the step in which BufferWithTime's source ends or yields an error
\* sends the buffer if it is non-empty, then the error if there is one, and
\* closes out; once out is closed nothing is sent and it is not closed again.
C24_FlushCloseThenSilence ==
  [][tIn.op = "time" =>
       /\ (cpc = "next" /\ cpc' = "exit") =>
             /\ out' = out \o Remaining \o
                   (IF bpos' > bpos THEN <<EmitError(tIn.items[bpos'])>> ELSE <<>>)
             /\ outClosed' = 1
       /\ outClosed >= 1 => (out' = out /\ outClosed' = outClosed)]_vars

\* C24 happens: the source yielded an error with values pending, the buffer
\* and the error were sent, and afterwards the timer woke up and returned.
C24_Witness ==
  /\ tIn.op = "time" /\ cpc = "exit" /\ tpc = "exit"
  /\ FirstError(tIn.items) > 0
  /\ Len(out) >= 2
  /\ out[Len(out)].t = "err"
  /\ out[Len(out) - 1].b # <<>>
  /\ outClosed = 1

\* C25: once stop is set, the timer goroutine of BufferWithTime eventually
\* returns (under fair scheduling of that goroutine).
C25_TimerExits ==
  (tIn.op = "time" /\ stop) ~> (tpc = "exit")

\* C25 happens: stop was set while the timer was in its timeshift pause after
\* a tick, and the timer has returned.
C25_Witness ==
  /\ tIn.op = "time" /\ stop /\ tpc = "exit"
  /\ Shift # 0 /\ ticks >= 1

\* the values the source yields before its first error (all of them when it
\* has none)
UpstreamValues ==
  LET e == FirstError(tIn.items)
  IN  IF e = 0 THEN tIn.items ELSE SubSeq(tIn.items, 1, e - 1)

\* BufferWithTimeOrCount runs with legal parameters
BTCRuns == tIn.op = "timeOrCount" /\ fpc = "done" /\ ~BadTimespan /\ tIn.count > 0

\* C26: BufferWithTimeOrCount sends buffers of at most count elements; what
\* has been sent, followed by what the sender holds, what waits on sendCh and
\* the current buffer, is at every moment the upstream values taken so far in
\* order, and when the operator has ended what has been sent is the whole
\* upstream value sequence.
C26_ConnectedNonOverlapping ==
  BTCRuns =>
    /\ \A j \in 1..Len(out) : Len(out[j].b) <= tIn.count
    /\ IF tpc = "exit" THEN Concat(out) = UpstreamValues
       ELSE Concat(out) \o (IF tpc = "send" THEN tb.b ELSE <<>>) \o pend.b \o buffer
              = SubSeq(UpstreamValues, 1, Min(bpos, Len(UpstreamValues)))

\* C26 happens: count 2 over 1,2,3: the timer released [1], the count
\* released [2,3], and the operator has ended.
C26_Witness ==
  /\ BTCRuns /\ tpc = "exit"
  /\ tIn.count = 2 /\ tIn.items = <<1, 2, 3>>
  /\ Len(out) >= 2
  /\ out[1].b = <<1>>
  /\ \E j \in 2..Len(out) : out[j].b = <<2, 3>>

\* C27: the step in which BufferWithTimeOrCount learns that its source has
\* ended sends the buffer if non-empty, then the source's error if it yielded
\* one, and closes out; once out is closed nothing is sent and it is not
\* closed again; and once the source has ended the close eventually happens.
C27_FlushErrorCloseOnce ==
  /\ [][tIn.op = "timeOrCount" =>
          /\ (tpc = "select" /\ tpc' = "exit") =>
                /\ out' = out \o Remaining \o
                      (IF bpos > 0 /\ IsError(tIn.items[bpos])
                         THEN <<EmitError(tIn.items[bpos])>> ELSE <<>>)
                /\ outClosed' = 1
          /\ outClosed >= 1 => (out' = out /\ outClosed' = outClosed)]_vars
  /\ (tIn.op = "timeOrCount" /\ pend.ch = "err") ~> (outClosed = 1)

\* C27 happens: the source yielded an error with a value pending after a
\* timer release; the value, then the error were sent and out was closed.
C27_Witness ==
  /\ BTCRuns /\ tpc = "exit" /\ outClosed = 1
  /\ ticks >= 1
  /\ FirstError(tIn.items) > 0
  /\ Len(out) >= 3
  /\ out[Len(out)].t = "err"
  /\ out[Len(out) - 1].b # <<>>

\* the parameters the operator was built with are invalid
InvalidParameters ==
  \/ bpc # "off" /\ (bIn.count <= 0 \/ bIn.skip <= 0)
  \/ tIn.op = "time" /\ tIn.timespan \in {NoDuration, 0}
  \/ tIn.op = "timeOrCount" /\ (tIn.timespan \in {NoDuration, 0} \/ tIn.count <= 0)

\* C21: a buffering operator built with invalid parameters does nothing
\* until f runs (on subscription); then out carries exactly one error and is
\* closed, no item has been taken from the source, and neither goroutine of
\* the timed operators has been started.
C21_InvalidParametersOneError ==
  InvalidParameters =>
    /\ IF bpc = "done" \/ fpc = "done"
         THEN /\ Len(out) = 1
              /\ out[1].t = "err" /\ out[1].msg # ""
              /\ outClosed = 1
         ELSE out = <<>> /\ outClosed = 0
    /\ bpos = 0
    /\ tpc = "off" /\ cpc = "off" /\ ticks = 0

\* C21 happens: f of BufferWithTimeOrCount has run with a good timespan and
\* count 0 over a non-empty source.
C21_Witness ==
  /\ tIn.op = "timeOrCount" /\ fpc = "done"
  /\ tIn.timespan = 1 /\ tIn.count = 0
  /\ tIn.items # <<>>
  /\ Len(out) = 1

\* the operator is still collecting
Collecting == bpc = "loop" \/ cpc \in {"next", "append", "blocked"}

\* C28: every buffer that was sent still has, in the array it was sent with,
\* the elements it had when it was sent; and while the operator is still
\* collecting, its buffer is in none of those arrays.
C28_EmittedBuffersUntouched ==
  \A j \in 1..Len(out) :
    out[j].t = "buf" =>
      /\ outRef[j].id \in 1..Len(mem)
      /\ SubSeq(mem[outRef[j].id], 1, outRef[j].len) = out[j].b
      /\ Collecting => outRef[j].id # bufId

\* C28 happens: BufferWithTime has sent a non-empty buffer and appended to
\* its buffer afterwards.
C28_Witness ==
  /\ tIn.op = "time" /\ Collecting
  /\ Len(out) >= 1
  /\ out[1].b # <<>>
  /\ buffer # <<>>

\* C29: when its producer has finished, Scheduled has called Next for its
\* arguments in order and then Complete, or, if an argument is an error, Next
\* for those before it, then Error, and nothing after; EMPTY has called
\* Complete only and NEVER nothing.
C29_ScheduledProtocol ==
  scpc = "done" =>
    sclog = (CASE scIn.f = "NEVER" -> <<>>
               [] scIn.f = "EMPTY" -> <<Complete>>
               [] OTHER ->
                    LET all == <<scIn.item>> \o scIn.items
                        k == FirstError(all)
                    IN  IF k = 0 THEN OnNexts(all) \o <<Complete>>
                        ELSE OnNexts(SubSeq(all, 1, k - 1)) \o <<OnError(all[k])>>)

NextsTo(o) ==
  LET l == ObsLog(o)
      idx == {i \in 1..Len(l) : l[i].t = "next"}
      nth(j) == CHOOSE i \in idx : Cardinality({h \in idx : h <= i}) = j
  IN  [j \in 1..Cardinality(idx) |-> l[nth(j)].v]

\* C34: on an open BehaviorSubject, once every Next that was started has
\* returned, the last value handed to a registered observer that received
\* two values is the current value: concurrent Next calls deliver in the
\* order in which they stored.
C34_DeliveryInStoreOrder ==
  (kind = "behavior" /\ ~closed /\ \A p \in Procs : pc[p] = "idle") =>
    \A o \in Range(observers) :
      Len(NextsTo(o)) >= 2 => NextsTo(o)[Len(NextsTo(o))] = v

\* what a subscriber reads from a channel that was sent s: up to and
\* including the first error
Read(s) == IF FirstError(s) = 0 THEN s ELSE SubSeq(s, 1, FirstError(s))

\* C33: when Skip(n) has closed its output, a reader of the output has got
\* the source's values after the first n, in order, up to the source's first
\* error, and that error as the last item, also when the error is among the
\* first n items of the source.
C33_SkipPropagatesError ==
  (kIn.op = "Skip" /\ kpc = "done") =>
    LET k == FirstError(kIn.items)
        m == Len(kIn.items)
    IN  Read(kout) = IF k = 0 THEN SubSeq(kIn.items, kIn.nth + 1, m)
                     ELSE SubSeq(kIn.items, kIn.nth + 1, k - 1) \o <<kIn.items[k]>>

\* C35: over an error-free source of m values SkipLast(n) never waits on its
\* channel buf while nothing can send on it, and when it has finished it has
\* sent the first max(m - n, 0) values in order and closed its output.
C35_SkipLastTerminates ==
  (kIn.op = "SkipLast" /\ FirstError(kIn.items) = 0) =>
    /\ ~(kpc = "default" /\ kbuf = <<>>)
    /\ kpc = "done" =>
         /\ kclosed
         /\ kout = SubSeq(kIn.items, 1, Len(kIn.items) - kIn.nth)

\* the least of the first k entries of n
Least(n, k) == CHOOSE x \in {n[i] : i \in 1..k} : \A i \in 1..k : x <= n[i]

\* the tuples a zip of the first k sources owes
Tuples == [j \in 1..Least(zIn.n, zIn.k) |-> [i \in 1..zIn.k |-> Val(i, j)]]

\* C31: the zip of sources of n1..nk values hands its subscriber, at every
\* moment, a prefix of the min(n1..nk) tuples whose j-th holds the j-th value
\* of every source in source order; it goes on until it has closed its
\* output, and has then emitted all of them.
C31_ZipShortestWins ==
  /\ Len(zout) <= Len(Tuples)
  /\ \A j \in 1..Len(zout) : zout[j] = Tuples[j]
  /\ zclosed => zout = Tuples
  /\ (zs[1].pc # "off" /\ ~zclosed) => ENABLED NextZip

\* C31 happens: sources of 3, 5 and 2 values gave exactly 2 tuples, and the
\* output is closed.
C31_Witness ==
  /\ zIn.k = 3 /\ zIn.n = <<3, 5, 2>>
  /\ zclosed
  /\ zout = << <<11, 21, 31>>, <<12, 22, 32>> >>

\* the items of the first i inner observables, one after the other
RECURSIVE Flat(_)
Flat(i) == IF i = 0 THEN <<>> ELSE Flat(i - 1) \o InnerItems(i)

\* C32: ConcatAll never has two inner subscriptions at once and none after
\* the result has terminated; what it hands on is the inner observables'
\* values one inner after the other in the order the outer emitted them;
\* only the last notification is terminal: Complete once the outer and
\* every inner have completed, else the first inner error (after all values
\* before it) or the outer's error.
C32_ConcatAllSequential ==
  LET all == Flat(Len(cIn.inners))
      k == FirstError(all)
      n == Len(clog)
      body == IF cterm THEN n - 1 ELSE n
  IN  /\ Cardinality(csub) <= 1
      /\ cterm => csub = {} /\ n > 0 /\ clog[n].t # "next"
      /\ body <= Len(all)
      /\ \A j \in 1..body : ~IsError(all[j]) /\ clog[j] = OnNext(all[j])
      /\ (cterm /\ clog[n] = Complete) =>
           /\ ostate = "complete"
           /\ cdone = 1..Len(cIn.inners)
           /\ body = Len(all)
      /\ (cterm /\ clog[n].t = "error") =>
           \/ clog[n] = OnError(OuterError) /\ ostate = "error"
           \/ k # 0 /\ body = k - 1 /\ clog[n] = OnError(all[k])

\* C32 happens: the outer emitted two inner observables of two values and
\* completed while the first was active; the result has delivered the four
\* values in order and completed.
C32_Witness ==
  /\ cIn.inners = <<[len |-> 2, err |-> 0], [len |-> 2, err |-> 0]>>
  /\ cterm
  /\ cdone = {1, 2}
  /\ clog = <<OnNext(11), OnNext(12), OnNext(21), OnNext(22), Complete>>
====
